---- MODULE Spec2Model ----
(***************************************************************************)
(* Model of the OPFS Explorer panel API (src/src/panel/api.ts).            *)
(*                                                                         *)
(* Part I models the operation dispatcher evalInPage: the controlling side *)
(* submits wrapped code to the inspected page, the wrapped code writes a   *)
(* status record into the scratch slot window[opId], and pollForResult     *)
(* re-reads that slot on a timer until it is terminal, a transport error   *)
(* occurs, or the attempt budget is exhausted.                             *)
(***************************************************************************)
EXTENDS Integers, Sequences, FiniteSets, TLC

(***************************************************************************)
(* Program constants.                                                      *)
(***************************************************************************)
\* api.ts:170  const maxAttempts = 300
maxAttempts == 300
\* api.ts:167  isSafari ? 100 : 10
SafariPollInterval == 100
DefaultPollInterval == 10
\* api.ts:231 / api.ts:273  attempts < 3
ExceptionRetryLimit == 3
\* api.ts:247  attempts < 5
NullRetryLimit == 5

(***************************************************************************)
(* Bounds of the model.                                                    *)
(***************************************************************************)
\* operations that may be outstanding at once (SpecConc)
NumOps == 2
\* Date.now() ranges over 0..MaxTime
MaxTime == 1
\* Math.random().toString(36).slice(2) ranges over 0..MaxRand
MaxRand == 1
\* polls per operation explored when several operations run at once
ConcPolls == 2

Ops == 1..NumOps
Times == 0..MaxTime
Rands == 0..MaxRand

(***************************************************************************)
(* JavaScript values.                                                      *)
(***************************************************************************)
\* the value undefined (also stands for null where the code tests falsiness)
Undef == "<undefined>"

\* x is falsy: undefined/null or the empty string
Falsy(x) == x = Undef \/ x = ""

\* a || b
Or(a, b) == IF Falsy(a) THEN b ELSE a

\* String(x)
ToStr(x) == IF x = Undef THEN "undefined" ELSE x

(***************************************************************************)
(* The scratch namespace of the inspected page.                            *)
(*                                                                         *)
(* A slot is a record {status, result?, error?}.  `by' is a history field: *)
(* the operation whose wrapped code wrote the record (0: nobody).  A slot  *)
(* that does not exist reads as undefined: NullRec.                        *)
(***************************************************************************)
NullRec == [status |-> "null", result |-> Undef, error |-> Undef, by |-> 0]
PendingRec(o) == [status |-> "pending", result |-> Undef, error |-> Undef, by |-> o]
DoneRec(o, v) == [status |-> "done", result |-> v, error |-> Undef, by |-> o]
ErrorRec(o, m) == [status |-> "error", result |-> Undef, error |-> m, by |-> o]

\* values the caller's code may return
Results == {"r1", Undef}

\* values the caller's code may throw: message is err.message, str is String(err)
Thrown ==
  { [nullish |-> FALSE, message |-> "boom", str |-> "Error: boom"],
    [nullish |-> FALSE, message |-> "Operation timed out",
     str |-> "Error: Operation timed out"],
    [nullish |-> FALSE, message |-> "", str |-> "Error"],
    [nullish |-> FALSE, message |-> Undef, str |-> ""],
    [nullish |-> TRUE, message |-> Undef, str |-> "null"] }

\* api.ts:191  err.message || String(err)
ThrownMessage(t) == Or(t.message, t.str)

(***************************************************************************)
(* Evaluation results: executeEval resolves with [value, exceptionInfo].   *)
(***************************************************************************)
NoExc == [present |-> FALSE, isError |-> FALSE, value |-> Undef,
          description |-> Undef, code |-> Undef]

ExcInfos ==
  { [present |-> TRUE, isError |-> TRUE, value |-> "E_VALUE",
     description |-> "E_DESC", code |-> "E_CODE"],
    [present |-> TRUE, isError |-> TRUE, value |-> Undef,
     description |-> Undef, code |-> Undef],
    [present |-> TRUE, isError |-> FALSE, value |-> Undef,
     description |-> "E_DESC", code |-> "E_CODE"],
    [present |-> TRUE, isError |-> FALSE, value |-> Undef,
     description |-> Undef, code |-> Undef] }

(***************************************************************************)
(* Operation ids and slot names.                                           *)
(***************************************************************************)
\* api.ts:163-164  "__opfs_" + Date.now() + "_" + Math.random().toString(36).slice(2)
OpId(t, r) == <<t, r>>

Ids == { OpId(t, r) : t \in Times, r \in Rands }
NoId == <<-1, -1>>

\* api.ts:177-179, 185-187, 189-191  "window['" + opId + "']" in the wrapped code
WrapperKey(id) == id

\* variant of PollKey reading one fixed slot name
PollKeySharedSlot(id) == OpId(0, 0)
\* api.ts:227  "window['" + opId + "']"
PollKey(id) == id

\* api.ts:220, 260, 266, 289, 295  "delete window['" + opId + "']"
DeleteKey(id) == id

(***************************************************************************)
(* Outcomes of the caller's promise.                                       *)
(***************************************************************************)
NoOutcome == [kind |-> "none", value |-> Undef]
Resolved(v) == [kind |-> "resolved", value |-> v]
\* reject(new Error(m))
Rejected(m) == [kind |-> "rejected", value |-> m]

\* api.ts:223
TimeoutMessage == "Operation timed out"

(***************************************************************************)
(* The decisions of evalInPage's handlers, as pure functions.  A decision  *)
(* says how the promise is settled (settle, cause), whether the slot       *)
(* deletion is issued (del), and whether a poll timer is scheduled (next,  *)
(* delay).                                                                 *)
(***************************************************************************)
Decision(s, c, d, n, dl) ==
  [settle |-> s, cause |-> c, del |-> d, next |-> n, delay |-> dl]

\* api.ts:167
pollInterval(safari) == IF safari THEN SafariPollInterval ELSE DefaultPollInterval

\* variant of TimedOut with an off-by-one comparison
TimedOutEarly(a) == a >= maxAttempts
\* api.ts:218  attempts > maxAttempts
TimedOut(a) == a > maxAttempts

\* variants of RetryPollException: the runtime flag dropped; one more retry
RetryPollExceptionAnyRuntime(safari, a) == a < ExceptionRetryLimit
RetryPollExceptionOneMore(safari, a) == safari /\ a <= ExceptionRetryLimit
\* api.ts:231  isSafari && attempts < 3
RetryPollException(safari, a) == safari /\ a < ExceptionRetryLimit

\* api.ts:247  isSafari && attempts < 5
RetryNullResult(safari, a) == safari /\ a < NullRetryLimit

\* api.ts:232  pollInterval * 2
ExceptionRetryDelay(safari) == pollInterval(safari) * 2

\* api.ts:248  pollInterval
NullRetryDelay(safari) == pollInterval(safari)

\* api.ts:203-210
SubmitErrorMessage(exc) ==
  ToStr(IF exc.isError
        THEN Or(Or(exc.value, exc.description), exc.code)
        ELSE Or(Or(exc.description, exc.code), "Unknown error"))

\* api.ts:235  pollException.description || "Polling error"
PollErrorMessage(exc) == Or(exc.description, "Polling error")

\* api.ts:269, 298  result.error || "Unknown error"
TargetErrorMessage(e) == Or(e, "Unknown error")

\* variants of OnDone: resolve left to the completion of the deletion; the
\* poll timer rescheduled after resolving
OnDoneAfterCleanup(safari, rec) ==
  Decision(NoOutcome, "none", TRUE, "stopped", 0)
OnDoneKeepsPolling(safari, rec) ==
  Decision(Resolved(rec.result), "done", TRUE, "timer", pollInterval(safari))
\* api.ts:258-263
OnDone(safari, rec) ==
  Decision(Resolved(rec.result), "done", TRUE, "stopped", 0)

\* api.ts:264-269
OnError(safari, rec) ==
  Decision(Rejected(TargetErrorMessage(rec.error)), "error", TRUE, "stopped", 0)

\* api.ts:215-225  the timeout branch of pollForResult
OnTimeout ==
  Decision(Rejected(TimeoutMessage), "timeout", TRUE, "stopped", 0)

\* api.ts:228-271  the handler of a poll's [pollResult, pollException]
PollHandler(safari, a, rec, exc) ==
  IF exc.present
  THEN IF RetryPollException(safari, a)
       THEN Decision(NoOutcome, "none", FALSE, "timer", ExceptionRetryDelay(safari))
       ELSE Decision(Rejected(PollErrorMessage(exc)), "transport", FALSE, "stopped", 0)
  ELSE IF rec.status = "null"
  THEN IF RetryNullResult(safari, a)
       THEN Decision(NoOutcome, "none", FALSE, "timer", NullRetryDelay(safari))
       ELSE Decision(Rejected("No result from eval"), "transport", FALSE, "stopped", 0)
  ELSE IF rec.status = "pending"
  THEN Decision(NoOutcome, "none", FALSE, "timer", pollInterval(safari))
  ELSE IF rec.status = "done" THEN OnDone(safari, rec)
  ELSE IF rec.status = "error" THEN OnError(safari, rec)
  ELSE Decision(NoOutcome, "none", FALSE, "stopped", 0)

\* variant of SubmitHandler without the short-circuit of api.ts:281-301
SubmitHandlerAlwaysPolls(safari, rec, exc) ==
  IF exc.present
  THEN Decision(Rejected(SubmitErrorMessage(exc)), "transport", FALSE, "stopped", 0)
  ELSE Decision(NoOutcome, "none", FALSE, "timer", pollInterval(safari))
\* api.ts:201-212, 281-304  the handler of the submission's [initialResult, exceptionInfo]
\* (executeEval never rejects and the handlers throw on no tuple, so the
\* .catch handlers of api.ts:272-278 and api.ts:306 never run)
SubmitHandler(safari, rec, exc) ==
  IF exc.present
  THEN Decision(Rejected(SubmitErrorMessage(exc)), "transport", FALSE, "stopped", 0)
  ELSE IF rec.status = "done" THEN OnDone(safari, rec)
  ELSE IF rec.status = "error" THEN OnError(safari, rec)
  ELSE Decision(NoOutcome, "none", FALSE, "timer", pollInterval(safari))

(***************************************************************************)
(* State of the other parts of the API.  Each part is explored by its own  *)
(* specification; the specifications of the dispatcher leave these         *)
(* variables at their idle values.                                         *)
(***************************************************************************)

\* JavaScript values handled by executeEval: t is the type, s the string
\* content (for an error: String(err)), a the elements of an array
JV(t, s, a) == [t |-> t, s |-> s, a |-> a]
JUndef == JV("undefined", "", <<>>)
JStr(s) == JV("string", s, <<>>)
JArr(elems) == JV("array", "", elems)
\* an exceptionInfo supplied by the host
JExc(s) == JV("exceptionInfo", s, <<>>)
\* api.ts:111-118, 126-133  { isError: true, code: s, description: s,
\* details: [], isException: false, value: s }
JErrRec(s) == JV("errorRecord", s, <<>>)

NoHostRes == [intent |-> "none", value |-> JUndef]

VARIABLES
  evPc,            \* executeEval: idle, called
  evCb,            \* the host's completion callback: none, pending, fired
  evPr,            \* the thenable returned by the host: none, pending, settled
  callbackCalled,  \* api.ts:55
  evOut,           \* what the promise returned by executeEval delivered
  \* history variables
  evFirst,         \* the host completion that came first
  evCbArgs,        \* the arguments of the callback
  evHostRes,       \* what the host's thenable resolved with
  evErr            \* what the host threw or rejected with

evalVars == <<evPc, evCb, evPr, callbackCalled, evOut, evFirst, evCbArgs,
              evHostRes, evErr>>

EvalIdle ==
  /\ evPc = "idle"
  /\ evCb = "none"
  /\ evPr = "none"
  /\ callbackCalled = FALSE
  /\ evOut = <<>>
  /\ evFirst = "none"
  /\ evCbArgs = <<>>
  /\ evHostRes = NoHostRes
  /\ evErr = JUndef

\* escapeString (api.ts:316-327) and the evaluation of the literal built from it
VARIABLES
  escPc,     \* "idle", "start", "escaped", "evaluated"
  escIn,     \* the string passed to escapeString
  escOut,    \* the text escapeString returned
  escQuote,  \* the quote character the text was wrapped in
  escVal     \* what evaluating the quoted text gave

escVars == <<escPc, escIn, escOut, escQuote, escVal>>

NoValue == [ok |-> FALSE, value |-> <<>>]

EscIdle ==
  /\ escPc = "idle"
  /\ escIn = <<>>
  /\ escOut = <<>>
  /\ escQuote = "none"
  /\ escVal = NoValue

\* stageBinaryData (api.ts:531-562) and the binary branch of opfsApi.write
\* (api.ts:752-791), for one write and so one staging key
VARIABLES
  stPc,         \* "idle", "start", "loop", "cleanup", "staged", "rejected", "written"
  stLen,        \* base64.length
  totalChunks,  \* api.ts:537
  staged,       \* api.ts:538
  stIdx,        \* the loop variable i of the staging loop or of the cleanup loop
  sessionStorage, \* chunk index -> the entry key_index of the page's sessionStorage
  stErr,        \* the error caught at api.ts:550
  stOut,        \* how the promise of stageBinaryData settled
  stRemovals,   \* the removal operations the cleanup loop issued, in order
  wrOut,        \* how the promise of opfsApi.write settled
  wrFail,       \* the statement of the write code that threw, if any
  submitted     \* the code strings handed to evalInPage so far, in order

stageVars == <<stPc, stLen, totalChunks, staged, stIdx, sessionStorage, stErr,
               stOut, stRemovals, wrOut, wrFail, submitted>>

\* most chunks a staged payload is cut into, beyond the first
MaxChunks == 2

ChunkIdx == 0..MaxChunks

\* a sessionStorage entry: absent, or the characters [lo, hi) of the payload
AbsentEntry == [present |-> FALSE, lo |-> 0, hi |-> 0]

Pending == [kind |-> "pending", value |-> "none", chunks |-> 0]

StageIdle ==
  /\ stPc = "idle"
  /\ stLen = 0
  /\ totalChunks = 0
  /\ staged = 0
  /\ stIdx = 0
  /\ sessionStorage = [i \in ChunkIdx |-> AbsentEntry]
  /\ stErr = "none"
  /\ stOut = Pending
  /\ stRemovals = <<>>
  /\ wrOut = Pending
  /\ wrFail = "none"
  /\ submitted = <<>>

\* __opfs_detectFileType (api.ts:397-489) applied to one file
VARIABLES
  clPc,      \* "idle", "start", "done"
  clFile,    \* the file: the extension of its name, its declared type, its bytes
  clResult   \* what __opfs_detectFileType returned

classVars == <<clPc, clFile, clResult>>

\* a declared MIME type top/sub; the empty type is NoType
Mime(top, sub) == [top |-> top, sub |-> sub]
NoType == Mime("", "")

\* a file by the part of its name from the last dot on, its declared type and
\* its bytes as runs of equal bytes
FileOf(ext, type, content) == [ext |-> ext, type |-> type, content |-> content]

ClassIdle ==
  /\ clPc = "idle"
  /\ clFile = FileOf("", NoType, <<>>)
  /\ clResult = "none"

\* The operation facade opfsApi (api.ts:564-1040): the inspected page's
\* environment and origin private file system, and the calls made so far
VARIABLES
  pgSecure,   \* isSecureContext in the inspected page
  pgStorage,  \* "full": navigator.storage with getDirectory; "noOpfs": without
              \* getDirectory; "none": no navigator.storage
  pgHasMove,  \* whether file system handles have a move method
  pgFault,    \* the storage call of the page that fails, if one does
  fcLink,     \* how the submissions of the operations with one submission go
  fs,         \* path -> entry of the origin private file system
  fcPc,       \* "idle", "ready", "staging" (a binary write is under way)
  fcCur,      \* the call under way
  fcCalls     \* the completed calls, in order

facadeVars == <<pgSecure, pgStorage, pgHasMove, pgFault, fcLink, fs, fcPc, fcCur, fcCalls>>

Root == ""
Paths == {"a", "a/b.txt", "b.txt", "img.png"}

\* an entry of the file system; the bytes of a file are runs of equal bytes
AbsentNode == [kind |-> "absent", content |-> <<>>]
DirNode == [kind |-> "directory", content |-> <<>>]
FileNode(bytes) == [kind |-> "file", content |-> bytes]

NoCall == [op |-> "none"]

FacadeIdle ==
  /\ pgSecure = TRUE
  /\ pgStorage = "full"
  /\ pgHasMove = TRUE
  /\ pgFault = "none"
  /\ fcLink = "ok"
  /\ fs = [p \in Paths |-> AbsentNode]
  /\ fcPc = "idle"
  /\ fcCur = NoCall
  /\ fcCalls = <<>>

\* The panel (src/src/panel/App.tsx): the editor pane with its save action,
\* and the upload queue with its conflict dialog
VARIABLES
  primaryFile,     \* App.tsx:1145  the entry shown in the editor pane
  fileContent,     \* App.tsx:1150  the displayed content
  initialContent,  \* App.tsx:1152  the content as loaded or last saved
  fileMeta,        \* App.tsx:1151  the FileReadResult of the displayed content
  contentLoading,  \* App.tsx:1153  the pane shows the loading indicator
  loads,           \* the files whose loadFileContent awaits readWithMeta
  stored,          \* per file: the content the last write stored, if any
  saves,           \* history: the opfsApi.write calls of saveFile, in order
  uploadConflict,  \* App.tsx:1186  the conflict the dialog shows
  pendingUploads,  \* App.tsx:1191  the uploads queued behind a conflict
  upRuns,          \* the running handleFileUpload calls
  resolving,       \* the running handleConflictResolve call, if any
  existing,        \* the file paths opfsApi.exists finds in the page
  upLink,          \* whether the page's operations go through
  drops,           \* history: the files the user passed to handleFileUpload
  written,         \* history: the opfsApi.write calls of processUploads
  reported,        \* history: the files whose failure a toast reported
  skipped,         \* history: the files of conflicts the user skipped
  redispatched     \* history: the uploads handleConflictResolve passed on

edVars == <<primaryFile, fileContent, initialContent, fileMeta, contentLoading,
            loads, stored, saves>>
upVars == <<uploadConflict, pendingUploads, upRuns, resolving, existing, upLink,
            drops, written, reported, skipped, redispatched>>
appVars == <<edVars, upVars>>

\* content shown in the editor pane: a plain string, a sentinel string known by
\* its prefix, or the data URL of an image
EdString(s) == [tag |-> "string", text |-> s]
EdSentinel(prefix) == [tag |-> "sentinel", text |-> prefix]
EdDataUrl == [tag |-> "dataUrl", text |-> "data:image/png;base64,"]

NoEntry == [path |-> "", kind |-> "none"]
NoMeta == [present |-> FALSE, isBase64 |-> FALSE]
NoConflict == [present |-> FALSE]
NoResolve == [active |-> FALSE]

EdIdle ==
  /\ primaryFile = NoEntry
  /\ fileContent = EdString("")
  /\ initialContent = EdString("")
  /\ fileMeta = NoMeta
  /\ contentLoading = FALSE
  /\ loads = {}
  /\ stored = <<>>
  /\ saves = <<>>

UpIdle ==
  /\ uploadConflict = NoConflict
  /\ pendingUploads = <<>>
  /\ upRuns = <<>>
  /\ resolving = NoResolve
  /\ existing = {}
  /\ upLink = "ok"
  /\ drops = <<>>
  /\ written = <<>>
  /\ reported = {}
  /\ skipped = {}
  /\ redispatched = <<>>

AppIdle == EdIdle /\ UpIdle

otherVars == <<evalVars, escVars, stageVars, classVars, facadeVars, appVars>>

OthersIdle == EvalIdle /\ EscIdle /\ StageIdle /\ ClassIdle /\ FacadeIdle /\ AppIdle

(***************************************************************************)
(* State.                                                                  *)
(***************************************************************************)
VARIABLES
  isSafari,  \* api.ts:10   the runtime is flagged unstable
  now,       \* Date.now()
  window,    \* the page's scratch namespace: slot name -> record
  pc,        \* per operation: idle, submit, timer, poll, stopped
  opId,      \* per operation: its id
  attempts,  \* per operation: api.ts:171
  work,      \* per operation: the wrapped async function: none, running, finished
  outcome,   \* per operation: the state of the caller's promise
  del,       \* per operation: the slot deletion: none, inflight, done, failed
  delay,     \* per operation: the delay of the pending poll timer
  timers,    \* per operation: poll timers set by setTimeout and not yet fired
  inflight,  \* per operation: poll evaluations handed to the host, not yet delivered
  \* history variables
  cause,     \* the path of the last resolve/reject call
  settles,   \* number of resolve/reject calls
  polls,     \* number of poll evaluations issued
  dels,      \* number of delete evaluations issued
  last,      \* what the evaluation handled last delivered, until the next poll
  observed,  \* the terminal record the dispatcher observed
  wrote,     \* the terminal record the operation's own wrapped code wrote
  touched    \* the slot names the operation read, wrote or deleted

dispVars == <<isSafari, now, window, pc, opId, attempts, work, outcome, del,
              delay, timers, inflight, cause, settles, polls, dels, last,
              observed, wrote, touched>>

vars == <<dispVars, otherVars>>

\* what the steps of one part leave unchanged
notEvalVars == <<dispVars, escVars, stageVars, classVars, facadeVars, appVars>>
notEscVars == <<dispVars, evalVars, stageVars, classVars, facadeVars, appVars>>
notStageVars == <<dispVars, evalVars, escVars, classVars, facadeVars, appVars>>
notClassVars == <<dispVars, evalVars, escVars, stageVars, facadeVars, appVars>>
notFacadeVars == <<dispVars, evalVars, escVars, classVars, appVars>>
notAppVars == <<dispVars, evalVars, escVars, stageVars, classVars, facadeVars>>

\* api.ts:151-171  no evalInPage call has been made
DispInit ==
  /\ isSafari \in BOOLEAN
  /\ now = 0
  /\ window = [k \in Ids |-> NullRec]
  /\ pc = [o \in Ops |-> "idle"]
  /\ opId = [o \in Ops |-> NoId]
  /\ attempts = [o \in Ops |-> 0]
  /\ work = [o \in Ops |-> "none"]
  /\ outcome = [o \in Ops |-> NoOutcome]
  /\ del = [o \in Ops |-> "none"]
  /\ delay = [o \in Ops |-> 0]
  /\ timers = [o \in Ops |-> 0]
  /\ inflight = [o \in Ops |-> 0]
  /\ cause = [o \in Ops |-> "none"]
  /\ settles = [o \in Ops |-> 0]
  /\ polls = [o \in Ops |-> 0]
  /\ dels = [o \in Ops |-> 0]
  /\ last = [o \in Ops |-> "none"]
  /\ observed = [o \in Ops |-> NullRec]
  /\ wrote = [o \in Ops |-> NullRec]
  /\ touched = [o \in Ops |-> {}]

Init == DispInit /\ OthersIdle

\* The effect of a handler's decision d on operation o.  resolve/reject on a
\* settled promise is a no-op: the first call decides the outcome.
Apply(o, d) ==
  /\ outcome' = [outcome EXCEPT ![o] =
                   IF d.settle.kind # "none" /\ @.kind = "none" THEN d.settle ELSE @]
  /\ settles' = [settles EXCEPT ![o] = IF d.settle.kind # "none" THEN @ + 1 ELSE @]
  /\ cause' = [cause EXCEPT ![o] = IF d.settle.kind # "none" THEN d.cause ELSE @]
  /\ del' = [del EXCEPT ![o] = IF d.del THEN "inflight" ELSE @]
  /\ dels' = [dels EXCEPT ![o] = IF d.del THEN @ + 1 ELSE @]
  /\ pc' = [pc EXCEPT ![o] = d.next]
  /\ delay' = [delay EXCEPT ![o] = d.delay]

\* api.ts:232, 248, 257, 304  setTimeout(pollForResult, ...): one more timer
\* when the handler's decision schedules a poll
Schedule(o, d) ==
  [timers EXCEPT ![o] = IF d.next = "timer" THEN @ + 1 ELSE @]

\* variant of TimerFired for a repeating timer (setInterval)
TimerFiredRepeats(n) == n
\* api.ts:232, 248, 257, 304  a timer set by setTimeout fires once and is gone
TimerFired(n) == n - 1

\* api.ts:151-200  evalInPage up to the submission of the wrapped code
Dispatch(o) ==
  /\ UNCHANGED otherVars
  /\ pc[o] = "idle"
  /\ \E devtools \in BOOLEAN :
       IF devtools
       THEN /\ \E t \in Times, r \in Rands :
                 /\ t >= now
                 /\ now' = t
                 /\ opId' = [opId EXCEPT ![o] = OpId(t, r)]
            /\ pc' = [pc EXCEPT ![o] = "submit"]
            /\ UNCHANGED <<outcome, settles, cause>>
       ELSE /\ pc' = [pc EXCEPT ![o] = "stopped"]
            /\ outcome' = [outcome EXCEPT ![o] =
                             Rejected("DevTools not available in development mode")]
            /\ settles' = [settles EXCEPT ![o] = @ + 1]
            /\ cause' = [cause EXCEPT ![o] = "nodevtools"]
            /\ UNCHANGED <<now, opId>>
  /\ UNCHANGED <<isSafari, window, attempts, work, del, delay, timers, inflight,
                 polls, dels, last, observed, wrote, touched>>

\* api.ts:175-197  the page runs the wrapped code up to its return
TargetExec(o) ==
  /\ UNCHANGED otherVars
  /\ pc[o] = "submit"
  /\ work[o] = "none"
  /\ window' = [window EXCEPT ![WrapperKey(opId[o])] = PendingRec(o)]
  /\ work' = [work EXCEPT ![o] = "running"]
  /\ touched' = [touched EXCEPT ![o] = @ \cup {WrapperKey(opId[o])}]
  /\ UNCHANGED <<isSafari, now, pc, opId, attempts, outcome, del, delay, timers,
                 inflight, cause,
                 settles, polls, dels, last, observed, wrote>>

\* api.ts:180-193  the wrapped async function finishes
WorkFinishWith(o, results, thrown) ==
  /\ UNCHANGED otherVars
  /\ work[o] = "running"
  /\ work' = [work EXCEPT ![o] = "finished"]
  /\ \/ \E v \in results :
          /\ window' = [window EXCEPT ![WrapperKey(opId[o])] = DoneRec(o, v)]
          /\ wrote' = [wrote EXCEPT ![o] = DoneRec(o, v)]
          /\ touched' = [touched EXCEPT ![o] = @ \cup {WrapperKey(opId[o])}]
     \/ \E t \in thrown :
          IF t.nullish
          THEN \* err.message throws inside the catch block: nothing is written
               UNCHANGED <<window, wrote, touched>>
          ELSE /\ window' = [window EXCEPT ![WrapperKey(opId[o])] =
                               ErrorRec(o, ThrownMessage(t))]
               /\ wrote' = [wrote EXCEPT ![o] = ErrorRec(o, ThrownMessage(t))]
               /\ touched' = [touched EXCEPT ![o] = @ \cup {WrapperKey(opId[o])}]
  /\ UNCHANGED <<isSafari, now, pc, opId, attempts, outcome, del, delay, timers,
                 inflight, cause,
                 settles, polls, dels, last, observed>>

\* api.ts:200-212, 281-304  the submission's result is delivered
SubmitCompleteWith(o, excs) ==
  /\ UNCHANGED otherVars
  /\ pc[o] = "submit"
  /\ \E exc \in excs \cup {NoExc} :
       \E rec \in {window[WrapperKey(opId[o])], NullRec} :
         /\ exc.present => rec = NullRec
         /\ ~exc.present => work[o] # "none"
         /\ Apply(o, SubmitHandler(isSafari, rec, exc))
         /\ timers' = Schedule(o, SubmitHandler(isSafari, rec, exc))
         /\ last' = [last EXCEPT ![o] =
                       IF exc.present THEN "submit-exception" ELSE "submit-value"]
         /\ observed' = [observed EXCEPT ![o] =
                           IF ~exc.present /\ rec.status \in {"done", "error"}
                           THEN rec ELSE @]
         /\ touched' = [touched EXCEPT ![o] =
                          IF exc.present THEN @ ELSE @ \cup {WrapperKey(opId[o])}]
  /\ UNCHANGED <<isSafari, now, window, opId, attempts, work, inflight, polls,
                 wrote>>

\* api.ts:215-227  the poll timer fires: pollForResult up to the poll's submission
pollForResult(o) ==
  /\ UNCHANGED otherVars
  /\ timers[o] > 0
  /\ timers' = [timers EXCEPT ![o] = TimerFired(@)]
  /\ attempts' = [attempts EXCEPT ![o] = @ + 1]
  /\ IF TimedOut(attempts[o] + 1)
     THEN /\ Apply(o, OnTimeout)
          /\ UNCHANGED <<polls, inflight>>
     ELSE /\ pc' = [pc EXCEPT ![o] = "poll"]
          /\ polls' = [polls EXCEPT ![o] = @ + 1]
          /\ inflight' = [inflight EXCEPT ![o] = @ + 1]
          /\ UNCHANGED <<outcome, settles, cause, del, dels, delay>>
  /\ last' = [last EXCEPT ![o] = "none"]
  /\ UNCHANGED <<isSafari, now, window, opId, work, observed, wrote, touched>>

\* api.ts:228-271  the poll's result is delivered
PollCompleteWith(o, excs) ==
  /\ UNCHANGED otherVars
  /\ inflight[o] > 0
  /\ inflight' = [inflight EXCEPT ![o] = @ - 1]
  /\ \E exc \in excs \cup {NoExc} :
       \E rec \in {window[PollKey(opId[o])], NullRec} :
         /\ exc.present => rec = NullRec
         /\ Apply(o, PollHandler(isSafari, attempts[o], rec, exc))
         /\ timers' = Schedule(o, PollHandler(isSafari, attempts[o], rec, exc))
         /\ last' = [last EXCEPT ![o] =
                       IF exc.present THEN "exception" ELSE rec.status]
         /\ observed' = [observed EXCEPT ![o] =
                           IF ~exc.present /\ rec.status \in {"done", "error"}
                           THEN rec ELSE @]
         /\ touched' = [touched EXCEPT ![o] =
                          IF exc.present THEN @ ELSE @ \cup {PollKey(opId[o])}]
  /\ UNCHANGED <<isSafari, now, window, opId, attempts, work, polls, wrote>>

\* api.ts:220, 260, 266, 289, 295  the page runs "delete window[opId]"
DeleteExec(o) ==
  /\ UNCHANGED otherVars
  /\ del[o] = "inflight"
  /\ window' = [window EXCEPT ![DeleteKey(opId[o])] = NullRec]
  /\ del' = [del EXCEPT ![o] = "done"]
  /\ touched' = [touched EXCEPT ![o] = @ \cup {DeleteKey(opId[o])}]
  /\ UNCHANGED <<isSafari, now, pc, opId, attempts, work, outcome, delay, timers,
                 inflight, cause,
                 settles, polls, dels, last, observed, wrote>>

\* api.ts:220-222, 260-262  the deletion reports an exception, which is swallowed
DeleteFail(o) ==
  /\ UNCHANGED otherVars
  /\ del[o] = "inflight"
  /\ del' = [del EXCEPT ![o] = "failed"]
  /\ UNCHANGED <<isSafari, now, window, pc, opId, attempts, work, outcome, delay, timers,
                 inflight,
                 cause, settles, polls, dels, last, observed, wrote, touched>>

Step(o) ==
  \/ Dispatch(o)
  \/ TargetExec(o)
  \/ WorkFinishWith(o, Results, Thrown)
  \/ SubmitCompleteWith(o, ExcInfos)
  \/ pollForResult(o)
  \/ PollCompleteWith(o, ExcInfos)
  \/ DeleteExec(o)
  \/ DeleteFail(o)

\* one operation, with its whole attempt budget
Next == Step(1)

Spec == Init /\ [][Next]_vars

\* the inputs explored when several operations run at once
ConcResults == {"r1"}
ConcThrown == { t \in Thrown : ~t.nullish /\ t.message \in {"boom", Undef} }
ConcExcInfos == { e \in ExcInfos : e.isError /\ e.value = Undef }

\* several operations at once, each explored for its first ConcPolls polls
StepConc(o) ==
  \/ Dispatch(o)
  \/ TargetExec(o)
  \/ WorkFinishWith(o, ConcResults, ConcThrown)
  \/ SubmitCompleteWith(o, ConcExcInfos)
  \/ (attempts[o] < ConcPolls /\ pollForResult(o))
  \/ PollCompleteWith(o, ConcExcInfos)
  \/ DeleteExec(o)
  \/ DeleteFail(o)

NextConc == \E o \in Ops : StepConc(o)

SpecConc == Init /\ [][NextConc]_vars

(***************************************************************************)
(* Properties of the dispatcher.                                           *)
(***************************************************************************)

\* C1: an operation rejects by timeout only after exactly 300 poll evaluations
\* were issued, an operation whose reads used up the attempt budget is rejected
\* with the timeout error, and no poll is issued after the rejection (the count
\* of issued polls stays 300 in every later state).
C1_TimeoutAfterMaxAttempts ==
  \A o \in Ops :
    /\ polls[o] <= 300
    /\ cause[o] = "timeout" =>
         /\ polls[o] = 300
         /\ outcome[o] = Rejected("Operation timed out")
         /\ pc[o] = "stopped"
    /\ attempts[o] > 300 => cause[o] = "timeout"

\* the wrapped code never completed, every budgeted poll was issued, timeout
C1_Witness ==
  /\ work[1] = "running"
  /\ window[opId[1]].status = "pending"
  /\ polls[1] = 300
  /\ cause[1] = "timeout"
  /\ outcome[1] = Rejected("Operation timed out")

\* resolve/reject was called at most once and the outcome has one kind
C2_Exclusive ==
  \A o \in Ops :
    /\ settles[o] <= 1
    /\ settles[o] = 1 <=> outcome[o].kind # "none"
    /\ outcome[o].kind # "none" => pc[o] = "stopped"
    /\ outcome[o].kind = "resolved" <=> cause[o] = "done"
    /\ outcome[o].kind = "rejected" <=>
         cause[o] \in {"error", "timeout", "transport", "nodevtools"}

\* a settled operation is not settled again nor polled again
C2_Final ==
  \A o \in Ops :
    outcome[o].kind # "none" =>
      /\ outcome'[o] = outcome[o]
      /\ cause'[o] = cause[o]
      /\ settles'[o] = settles[o]
      /\ polls'[o] = polls[o]

\* C2: resolve/reject is called at most once per operation, so the operation has
\* at most one of the outcomes done, error, timeout, transport failure; once it
\* has one, no later step changes it, calls resolve/reject again, or polls.
C2_OneFinalOutcome == []C2_Exclusive /\ [][C2_Final]_vars

\* the operation timed out and its target-side work and its deletion ran later
C2_Witness ==
  /\ cause[1] = "timeout"
  /\ outcome[1] = Rejected("Operation timed out")
  /\ work[1] = "finished"
  /\ del[1] = "done"

\* C3: whenever the promise of an operation that started polling or took the
\* short-circuit is settled (result, target-side error, timeout, poll exception,
\* no poll result), a delete evaluation of its slot has been issued.
C3_DeleteOnEverySettle ==
  \A o \in Ops :
    (outcome[o].kind # "none" /\ last[o] # "submit-exception"
       /\ cause[o] # "nodevtools")
      => dels[o] >= 1

\* C4 as stated: once a terminal record was observed the promise is settled with
\* exactly the carried result or the carried message.
C4_SettlesWithCarriedValue ==
  \A o \in Ops :
    /\ observed[o].status = "done" => outcome[o] = Resolved(observed[o].result)
    /\ observed[o].status = "error" => outcome[o] = Rejected(observed[o].error)

\* C4 (amended): in the step that observes a terminal record, and in every state
\* after it whatever the deletion does (in flight for ever, done, failed), the
\* promise is settled with the carried result, or rejected with the carried
\* message, an empty message being replaced by "Unknown error".
C4_CleanupNeverMasks ==
  \A o \in Ops :
    /\ observed[o].status = "done" => outcome[o] = Resolved(observed[o].result)
    /\ observed[o].status = "error" =>
         outcome[o] = Rejected(IF observed[o].error = "" THEN "Unknown error"
                               ELSE observed[o].error)
    /\ observed[o].status \in {"done", "error"} => del[o] # "none"

\* the result was delivered although the deletion reported an exception
C4_Witness ==
  /\ observed[1].status = "error"
  /\ observed[1].error = "boom"
  /\ outcome[1] = Rejected("boom")
  /\ del[1] = "failed"
  /\ window[opId[1]].status = "error"

\* no other operation drew the id of operation o
UniqueId(o) == opId[o] # NoId /\ \A p \in Ops \ {o} : opId[p] # opId[o]

\* operation o touched no slot but its own and nobody else touched that one
OwnSlotOnly(o) ==
  /\ touched[o] \subseteq {opId[o]}
  /\ \A p \in Ops \ {o} : opId[o] \notin touched[p]
  /\ window[opId[o]].by \in {0, o}
  /\ observed[o].status # "null" => observed[o] = wrote[o]

\* C5 as stated: an operation whose id no other operation has touches only its
\* own slot, and its caller receives exactly the result or the error message its
\* own wrapped code wrote.
C5_ExactlyOwnResult ==
  \A o \in Ops :
    UniqueId(o) =>
      /\ OwnSlotOnly(o)
      /\ cause[o] = "done" => outcome[o] = Resolved(wrote[o].result)
      /\ cause[o] = "error" => outcome[o] = Rejected(wrote[o].error)

\* C5 (amended): an operation whose id no other operation has touches only its
\* own slot, under every interleaving, and its caller receives the result its
\* own wrapped code wrote, or is rejected with the message its own wrapped code
\* wrote, an empty message being replaced by "Unknown error".
C5_Isolation ==
  \A o \in Ops :
    UniqueId(o) =>
      /\ OwnSlotOnly(o)
      /\ cause[o] = "done" => outcome[o] = Resolved(wrote[o].result)
      /\ cause[o] = "error" =>
           outcome[o] = Rejected(IF wrote[o].error = "" THEN "Unknown error"
                                 ELSE wrote[o].error)

\* two operations with distinct ids ran at once; one got its result while the
\* other, whose code threw, is still being polled
C5_Witness ==
  /\ opId[1] # opId[2]
  /\ cause[1] = "done"
  /\ outcome[1] = Resolved("r1")
  /\ wrote[2].status = "error"
  /\ window[opId[2]] = wrote[2]
  /\ pc[2] = "poll"
  /\ del[1] = "done"

Outstanding(o) == pc[o] \in {"submit", "timer", "poll"}

\* C6: no two outstanding operations have the same id.
C6_UniqueOutstandingIds ==
  \A o \in Ops : \A p \in Ops \ {o} :
    (Outstanding(o) /\ Outstanding(p)) => opId[o] # opId[p]

\* C7: the value of a timeout rejection differs from the value of every
\* rejection on a target-side error status or a transport error.
C7_TimeoutDistinguishable ==
  \A o \in Ops :
    cause[o] \in {"error", "transport"} =>
      outcome[o] # Rejected("Operation timed out")

\* C8: a submission that reports an exception rejects the operation and no poll
\* is ever issued; on a runtime not flagged unstable a poll that reports an
\* exception or returns no result rejects the operation and no timer is left
\* to issue another poll.
C8_TransportErrorsTerminal ==
  \A o \in Ops :
    /\ last[o] = "submit-exception" =>
         /\ polls[o] = 0
         /\ pc[o] = "stopped"
         /\ outcome[o].kind = "rejected"
         /\ cause[o] = "transport"
    /\ (~isSafari /\ last[o] \in {"exception", "null"}) =>
         /\ pc[o] = "stopped"
         /\ outcome[o].kind = "rejected"
         /\ cause[o] = "transport"

\* not flagged unstable: the second poll returned nothing and the operation is
\* rejected at once, the slot still pending
C8_Witness ==
  /\ ~isSafari
  /\ last[1] = "null"
  /\ polls[1] = 2
  /\ attempts[1] = 2
  /\ pc[1] = "stopped"
  /\ outcome[1] = Rejected("No result from eval")
  /\ window[opId[1]].status = "pending"

\* C9: on a runtime flagged unstable a poll exception is retried exactly while
\* the attempt counter is below 3 and a null result exactly while it is below 5;
\* at any later attempt the failure rejects the operation at once.
C9_BoundedTransientRetries ==
  isSafari =>
    \A o \in Ops :
      /\ last[o] = "exception" =>
           IF attempts[o] < 3
           THEN pc[o] = "timer" /\ outcome[o].kind = "none"
           ELSE pc[o] = "stopped" /\ outcome[o].kind = "rejected"
                /\ cause[o] = "transport"
      /\ last[o] = "null" =>
           IF attempts[o] < 5
           THEN pc[o] = "timer" /\ outcome[o].kind = "none"
           ELSE pc[o] = "stopped" /\ outcome[o].kind = "rejected"
                /\ cause[o] = "transport"

\* flagged unstable: the budget of retried null results is used up at attempt 5
C9_Witness ==
  /\ isSafari
  /\ last[1] = "null"
  /\ attempts[1] = 5
  /\ polls[1] = 5
  /\ pc[1] = "stopped"
  /\ outcome[1] = Rejected("No result from eval")

\* C10: the timer of every transient retry (after a poll exception and after a
\* null result) has a delay strictly longer than the poll interval.
C10_RetriesBackOff ==
  \A o \in Ops :
    (pc[o] = "timer" /\ last[o] \in {"exception", "null"}) =>
      delay[o] > pollInterval(isSafari)

\* the submission's own return value carried a terminal status
ShortCircuit(o) ==
  last[o] = "submit-value" /\ observed[o].status \in {"done", "error"}

\* C11 as stated: when the submission's return value carries 'done' or 'error',
\* no poll is issued, the deletion is issued, and the promise resolves with the
\* carried result or rejects with exactly the carried message.
C11_ShortCircuitCarriedValue ==
  \A o \in Ops :
    ShortCircuit(o) =>
      /\ polls[o] = 0 /\ attempts[o] = 0 /\ pc[o] = "stopped"
      /\ dels[o] = 1
      /\ observed[o].status = "done" => outcome[o] = Resolved(observed[o].result)
      /\ observed[o].status = "error" => outcome[o] = Rejected(observed[o].error)

\* C11 (amended): when the submission's return value carries 'done' or 'error',
\* no poll is ever issued, the deletion is issued once, and the promise resolves
\* with the carried result or rejects with the carried message, an empty
\* message being replaced by "Unknown error".
C11_ShortCircuit ==
  \A o \in Ops :
    ShortCircuit(o) =>
      /\ polls[o] = 0 /\ attempts[o] = 0 /\ pc[o] = "stopped"
      /\ dels[o] = 1
      /\ observed[o].status = "done" => outcome[o] = Resolved(observed[o].result)
      /\ observed[o].status = "error" =>
           outcome[o] = Rejected(IF observed[o].error = "" THEN "Unknown error"
                                 ELSE observed[o].error)

\* the wrapped code had finished when the submission returned: resolved at once
C11_Witness ==
  /\ ShortCircuit(1)
  /\ observed[1] = DoneRec(1, "r1")
  /\ outcome[1] = Resolved("r1")
  /\ polls[1] = 0
  /\ del[1] = "done"
  /\ window[opId[1]] = NullRec

\* C12: once the wrapped operation has run the slot was written 'pending', and
\* when the wrapped operation has finished (returned or thrown any value) its
\* code has overwritten the slot with a 'done' or an 'error' record.
C12_SlotWrittenOnFinish ==
  \A o \in Ops :
    /\ work[o] # "none" => WrapperKey(opId[o]) \in touched[o]
    /\ work[o] = "finished" => wrote[o].status \in {"done", "error"}

\* ---------------------------------------------------------------------------
\* executeEval (api.ts:43-137): one call of the host's eval primitive, which
\* may invoke the completion callback, return a thenable, or throw.
\* ---------------------------------------------------------------------------

\* an Error object thrown or rejected by the host
JError(msg) == JV("error", msg, <<>>)

\* String(err)
StringOf(j) ==
  IF j.t = "undefined" THEN "undefined"
  ELSE IF j.t = "error" THEN IF j.s = "" THEN "Error" ELSE "Error: " \o j.s
  ELSE j.s

\* the record built at api.ts:111-120 and 124-133
ErrorRecordOf(err) == JErrRec(StringOf(err))

\* one settlement of the promise executeEval returns
Res(tuple) == [kind |-> "resolved", tuple |-> tuple]
Rej(err) == [kind |-> "rejected", tuple |-> <<err>>]

\* variant of PromiseSettle in which a later resolve call is delivered as well
PromiseSettleAgain(out, ds) == out \o ds
\* api.ts:49  new Promise((resolve) => ...): only the first resolve call settles
PromiseSettle(out, ds) == IF out = <<>> THEN ds ELSE out

\* api.ts:64-67  the completion callback
OnCallback(v, e) == <<Res(<<v, e>>)>>

\* api.ts:89-105  the thenable's fulfilment handler
OnHostResolve(cc, res) ==
  IF cc THEN <<>>
  ELSE IF res.t = "array" THEN <<Res(res.a)>>
  ELSE <<Res(<<res, JUndef>>)>>

\* variant of OnHostReject that lets the host's rejection through
OnHostRejectPropagates(cc, err) == IF cc THEN <<>> ELSE <<Rej(err)>>
\* api.ts:107-121  the thenable's rejection handler
OnHostReject(cc, err) ==
  IF cc THEN <<>> ELSE <<Res(<<JUndef, ErrorRecordOf(err)>>)>>

\* api.ts:123-134  the catch around the host call
OnHostThrow(err) == <<Res(<<JUndef, ErrorRecordOf(err)>>)>>

\* values the host passes, resolves, rejects or throws
EvalValues == {JStr("v"), JUndef}
EvalExcs == {JUndef, JExc("x")}
EvalErrors == {JError("boom"), JError(""), JStr("denied"), JUndef}
BareArrays == {JArr(<<JStr("a"), JStr("b")>>), JArr(<<>>), JArr(<<JStr("a")>>)}
BareValues == EvalValues \cup BareArrays
HostTuples == {JArr(<<v, e>>) : v \in EvalValues \cup {JArr(<<JStr("a"), JStr("b")>>)}, e \in EvalExcs}

\* api.ts:70-76  result && typeof result === "object" && typeof result.then === "function"
IsThenable(pr) == pr = "pending"

\* api.ts:50-136  the executor: the host call returns (having perhaps invoked
\* the callback synchronously) or throws
EvalCall ==
  /\ evPc = "idle"
  /\ evPc' = "called"
  /\ \/ \E err \in EvalErrors :
          /\ evErr' = err
          /\ evOut' = PromiseSettle(evOut, OnHostThrow(err))
          /\ evFirst' = "throw"
          /\ evCb' = "none" /\ evPr' = "none"
          /\ UNCHANGED <<callbackCalled, evCbArgs>>
     \/ \E cb \in {"none", "sync", "armed"}, pr \in {"none", "pending"} :
          /\ evErr' = JUndef
          /\ evPr' = pr
          /\ IF cb = "sync"
             THEN \E v \in EvalValues, e \in EvalExcs :
                    /\ evCb' = "fired"
                    /\ callbackCalled' = TRUE
                    /\ evCbArgs' = <<v, e>>
                    /\ evOut' = PromiseSettle(evOut, OnCallback(v, e))
                    /\ evFirst' = "callback"
             ELSE /\ evCb' = cb
                  /\ UNCHANGED <<callbackCalled, evCbArgs, evOut, evFirst>>
  /\ UNCHANGED <<evHostRes, notEvalVars>>

\* api.ts:58-67  the host invokes the completion callback
HostCallback ==
  /\ evPc = "called" /\ evCb = "armed"
  /\ \E v \in EvalValues, e \in EvalExcs :
       /\ evCb' = "fired"
       /\ callbackCalled' = TRUE
       /\ evCbArgs' = <<v, e>>
       /\ evOut' = PromiseSettle(evOut, OnCallback(v, e))
  /\ evFirst' = IF evFirst = "none" THEN "callback" ELSE evFirst
  /\ UNCHANGED <<evPc, evPr, evHostRes, evErr, notEvalVars>>

\* api.ts:89-106  the returned thenable is fulfilled, with a bare value or
\* with a [value, exceptionInfo] tuple
HostResolve ==
  /\ evPc = "called" /\ IsThenable(evPr)
  /\ \E intent \in {"bare", "tuple"} :
       \E res \in IF intent = "bare" THEN BareValues ELSE HostTuples :
         /\ evHostRes' = [intent |-> intent, value |-> res]
         /\ evOut' = PromiseSettle(evOut, OnHostResolve(callbackCalled, res))
  /\ evPr' = "settled"
  /\ evFirst' = IF evFirst = "none" THEN "promise" ELSE evFirst
  /\ UNCHANGED <<evPc, evCb, callbackCalled, evCbArgs, evErr, notEvalVars>>

\* api.ts:107-121  the returned thenable is rejected
HostReject ==
  /\ evPc = "called" /\ IsThenable(evPr)
  /\ \E err \in EvalErrors :
       /\ evHostRes' = [intent |-> "reject", value |-> err]
       /\ evOut' = PromiseSettle(evOut, OnHostReject(callbackCalled, err))
  /\ evPr' = "settled"
  /\ evFirst' = IF evFirst = "none" THEN "promise" ELSE evFirst
  /\ UNCHANGED <<evPc, evCb, callbackCalled, evCbArgs, evErr, notEvalVars>>

InitEval == Init /\ isSafari = FALSE
NextEval == EvalCall \/ HostCallback \/ HostResolve \/ HostReject
SpecEval == InitEval /\ [][NextEval]_vars

C14_OneResult ==
  /\ Len(evOut) <= 1
  /\ (evCb = "fired" \/ evPr = "settled") => Len(evOut) = 1
  /\ evFirst = "callback" => evOut = <<Res(evCbArgs)>>

\* the callback fired first, then the thenable resolved with something else
C14_Witness ==
  /\ evFirst = "callback" /\ evCb = "fired" /\ evPr = "settled"
  /\ evHostRes.intent = "tuple"
  /\ evHostRes.value.a # evCbArgs
  /\ evOut = <<Res(evCbArgs)>>

\* C15: when the thenable settles first, a bare value v is delivered as
\* [v, undefined], arrays included, and a tuple [v, e] is delivered as [v, e].
C15_BareValueNormalised ==
  evFirst = "promise" =>
    /\ evHostRes.intent = "bare" => evOut = <<Res(<<evHostRes.value, JUndef>>)>>
    /\ evHostRes.intent = "tuple" => evOut = <<Res(evHostRes.value.a)>>

\* ---------------------------------------------------------------------------
\* escapeString (api.ts:316-327).  A string is a sequence of characters; the
\* characters the escaper rewrites are named, the others stand for themselves.
\* ---------------------------------------------------------------------------

BS == "BS"    \* backslash
SQ == "SQ"    \* single quote
DQ == "DQ"    \* double quote
LF == "LF"    \* \n
CR == "CR"    \* \r
TAB == "TAB"  \* \t
NUL == "NUL"  \* \0
LS == "LS"    \* U+2028
PS == "PS"    \* U+2029
OtherChar == "OTHER"  \* any character outside the alphabet below

\* longest string passed to escapeString
MaxStrLen == 3

\* characters of the strings passed to escapeString
EscAlphabet == {BS, SQ, DQ, LF, CR, TAB, NUL, LS, PS, "n", "x", "0", "8"}

EscStrings == UNION {[1..n -> EscAlphabet] : n \in 0..MaxStrLen}

\* String.prototype.replace(/c/g, rep)
RECURSIVE ReplaceAll(_, _, _)
ReplaceAll(str, c, rep) ==
  IF str = <<>> THEN <<>>
  ELSE (IF Head(str) = c THEN rep ELSE <<Head(str)>>) \o ReplaceAll(Tail(str), c, rep)

\* variant of NulEscape: the short escape \0
NulEscapeShort == <<BS, "0">>
\* api.ts:325  "\\x00"
NulEscape == <<BS, "x", "0", "0">>

\* api.ts:317-326  the nine replace passes, in the order of the source
escapeString(str) ==
  LET p1 == ReplaceAll(str, BS, <<BS, BS>>)
      p2 == ReplaceAll(p1, SQ, <<BS, SQ>>)
      p3 == ReplaceAll(p2, DQ, <<BS, DQ>>)
      p4 == ReplaceAll(p3, LF, <<BS, "n">>)
      p5 == ReplaceAll(p4, CR, <<BS, "r">>)
      p6 == ReplaceAll(p5, TAB, <<BS, "t">>)
      p7 == ReplaceAll(p6, NUL, NulEscape)
      p8 == ReplaceAll(p7, LS, <<BS, "u", "2", "0", "2", "8">>)
  IN  ReplaceAll(p8, PS, <<BS, "u", "2", "0", "2", "9">>)

\* The target's evaluation of a quoted string literal (ECMAScript string
\* literal grammar, non-strict code), for the characters above.
OctalDigits == {"0", "2"}
HexDigits == {"0", "2", "8", "9"}
Invalid == [ok |-> FALSE, value |-> <<>>]

\* the octal digits that continue a legacy octal escape (at most two more)
OctalRun(rest) ==
  IF Len(rest) >= 1 /\ rest[1] \in OctalDigits
  THEN IF Len(rest) >= 2 /\ rest[2] \in OctalDigits THEN 2 ELSE 1
  ELSE 0

AllZero(ds) == \A i \in 1..Len(ds) : ds[i] = "0"

\* the character a \uXXXX escape denotes
UnicodeChar(ds) ==
  IF ds = <<"2", "0", "2", "8">> THEN LS
  ELSE IF ds = <<"2", "0", "2", "9">> THEN PS
  ELSE IF AllZero(ds) THEN NUL
  ELSE OtherChar

RECURSIVE EvalBody(_, _, _)
RECURSIVE EvalEscape(_, _, _)

\* the characters after a backslash
EvalEscape(rest, q, acc) ==
  IF rest = <<>> THEN Invalid  \* the backslash escapes the closing quote
  ELSE
    LET e == Head(rest)
        r2 == Tail(rest)
    IN  CASE e = "n" -> EvalBody(r2, q, Append(acc, LF))
          [] e = "r" -> EvalBody(r2, q, Append(acc, CR))
          [] e = "t" -> EvalBody(r2, q, Append(acc, TAB))
          [] e \in OctalDigits ->
               LET k == OctalRun(r2)
                   ds == <<e>> \o SubSeq(r2, 1, k)
               IN  EvalBody(SubSeq(r2, k + 1, Len(r2)), q,
                            Append(acc, IF AllZero(ds) THEN NUL ELSE OtherChar))
          [] e = "x" ->
               IF Len(r2) >= 2 /\ r2[1] \in HexDigits /\ r2[2] \in HexDigits
               THEN EvalBody(SubSeq(r2, 3, Len(r2)), q,
                             Append(acc, IF AllZero(SubSeq(r2, 1, 2)) THEN NUL ELSE OtherChar))
               ELSE Invalid
          [] e = "u" ->
               IF Len(r2) >= 4 /\ \A i \in 1..4 : r2[i] \in HexDigits
               THEN EvalBody(SubSeq(r2, 5, Len(r2)), q,
                             Append(acc, UnicodeChar(SubSeq(r2, 1, 4))))
               ELSE Invalid
          [] e \in {LF, LS, PS} -> EvalBody(r2, q, acc)  \* line continuation
          [] e = CR ->
               EvalBody(IF r2 # <<>> /\ Head(r2) = LF THEN Tail(r2) ELSE r2, q, acc)
          [] OTHER -> EvalBody(r2, q, Append(acc, e))

\* the body of a literal delimited by q; an unescaped delimiter or line
\* terminator ends the literal early, which is not the literal that was meant
EvalBody(src, q, acc) ==
  IF src = <<>> THEN [ok |-> TRUE, value |-> acc]
  ELSE
    LET c == Head(src)
    IN  IF c = q \/ c \in {LF, CR, LS, PS} THEN Invalid
        ELSE IF c = BS THEN EvalEscape(Tail(src), q, acc)
        ELSE EvalBody(Tail(src), q, Append(acc, c))

EvalLiteral(text, q) == EvalBody(text, q, <<>>)

\* api.ts:316  escapeString(str)
EscapeCall ==
  /\ escPc = "start"
  /\ escPc' = "escaped"
  /\ escOut' = escapeString(escIn)
  /\ UNCHANGED <<escIn, escQuote, escVal, notEscVars>>

\* the target evaluates q + escapeString(str) + q
EvalQuoted(q) ==
  /\ escPc = "escaped"
  /\ escPc' = "evaluated"
  /\ escQuote' = q
  /\ escVal' = EvalLiteral(escOut, q)
  /\ UNCHANGED <<escIn, escOut, notEscVars>>

InitEscape ==
  /\ DispInit /\ isSafari = FALSE
  /\ EvalIdle /\ StageIdle /\ ClassIdle /\ FacadeIdle /\ AppIdle
  /\ escPc = "start"
  /\ escIn \in EscStrings
  /\ escOut = <<>>
  /\ escQuote = "none"
  /\ escVal = NoValue

NextEscape == EscapeCall \/ EvalQuoted(SQ) \/ EvalQuoted(DQ)
SpecEscape == InitEscape /\ [][NextEscape]_vars

\* C16: for every string s, the literal formed by wrapping escapeString(s) in
\* single quotes, or in double quotes, is valid and evaluates to exactly s.
C16_RoundTrip ==
  escPc = "evaluated" => escVal = [ok |-> TRUE, value |-> escIn]

\* a null byte followed by a digit, escaped and evaluated back in single quotes
C16_Witness ==
  /\ escPc = "evaluated"
  /\ escIn = <<NUL, "0">>
  /\ escOut = <<BS, "x", "0", "0", "0">>
  /\ escQuote = SQ
  /\ escVal = [ok |-> TRUE, value |-> <<NUL, "0">>]

\* ---------------------------------------------------------------------------
\* stageBinaryData (api.ts:531-562) and the binary branch of opfsApi.write
\* (api.ts:752-791).  The payload is known by its length; a chunk is the range
\* of payload positions that base64.slice gave it.
\* ---------------------------------------------------------------------------

\* api.ts:536  const CHUNK = 65536
CHUNK == 65536

\* payload lengths around the chunk boundaries
StageLengths ==
  {0, 1} \cup {k * CHUNK + d : k \in 1..MaxChunks, d \in {-1, 0, 1}}

Min(a, b) == IF a <= b THEN a ELSE b

\* Math.ceil(a / b) for a >= 0, b > 0
Ceil(a, b) == (a + b - 1) \div b

\* JavaScript a || b on numbers
OrNum(a, b) == IF a = 0 THEN b ELSE a

\* variant of TotalChunks that rounds down
TotalChunksFloor(len) == OrNum(len \div CHUNK, 1)
\* api.ts:537  Math.ceil(base64.length / CHUNK) || 1
TotalChunks(len) == OrNum(Ceil(len, CHUNK), 1)

\* api.ts:542  base64.slice(i * CHUNK, (i + 1) * CHUNK) of a string of length len
Slice(len, i) ==
  [present |-> TRUE, lo |-> Min(i * CHUNK, len), hi |-> Min((i + 1) * CHUNK, len)]

\* variant of MoreChunks that leaves the last chunk out
MoreChunksButLast(i, n) == i + 1 < n
\* api.ts:541  for (let i = 0; i < totalChunks; i++)
MoreChunks(i, n) == i < n

\* variant of MoreCleanup that leaves the last staged chunk out
MoreCleanupButLast(j, n) == j + 1 < n
\* api.ts:553  for (let i = 0; i < staged; i++)
MoreCleanup(j, n) == j < n

\* a code string handed to evalInPage: the statement it is built around and
\* the payload positions [lo, hi) it embeds as a literal (none: lo = hi = 0)
Code(stmt, lo, hi) == [stmt |-> stmt, lo |-> lo, hi |-> hi]

\* variant of SetItemCode that inlines the whole payload
SetItemCodeWhole(len, i) == Code("setItem", 0, len)
\* api.ts:545-547  sessionStorage.setItem('key_i', 'safeChunk'); undefined
SetItemCode(len, i) == Code("setItem", Slice(len, i).lo, Slice(len, i).hi)

StageResolved(n) == [kind |-> "resolved", value |-> "key", chunks |-> n]
StageRejected(err) == [kind |-> "rejected", value |-> err, chunks |-> 0]

\* How one dispatched sessionStorage operation can end (evalInPage, api.ts:151-308):
\* ran  - the page executed the statement;  err - the rejection, "none" if resolved
SetItemOutcomes ==
  { [ran |-> TRUE,  err |-> "none"],                 \* stored, resolved
    [ran |-> FALSE, err |-> "QuotaExceededError"],   \* setItem threw in the page
    [ran |-> TRUE,  err |-> "Polling error"],        \* stored, then the poll failed (api.ts:235)
    [ran |-> FALSE, err |-> "Eval failed"] }         \* the submission failed (api.ts:210)
RemoveItemOutcomes ==
  { [ran |-> TRUE,  err |-> "none"],
    [ran |-> TRUE,  err |-> "Polling error"],
    [ran |-> FALSE, err |-> "Eval failed"] }

\* api.ts:550-559  the catch block once no removal is left: throw err; the
\* await in opfsApi.write (api.ts:756) rethrows it to the caller of write
Rethrow(err) ==
  /\ stPc' = "rejected"
  /\ stOut' = StageRejected(err)
  /\ wrOut' = StageRejected(err)

\* api.ts:745-756, 531-539  write(path, content, true) calls stageBinaryData
StageCall ==
  /\ stPc = "start"
  /\ stPc' = "loop"
  /\ totalChunks' = TotalChunks(stLen)
  /\ staged' = 0
  /\ stIdx' = 0
  /\ UNCHANGED <<stLen, sessionStorage, stErr, stOut, stRemovals, wrOut, wrFail,
                 submitted, notStageVars>>

\* api.ts:541-549, 550-561  chunk i is dispatched and its promise settles; on
\* success the loop goes on or the function returns, on failure the catch
\* block starts
StageChunk ==
  /\ stPc = "loop"
  /\ submitted' = Append(submitted, SetItemCode(stLen, stIdx))
  /\ \E r \in SetItemOutcomes :
       /\ sessionStorage' = IF r.ran
                            THEN [sessionStorage EXCEPT ![stIdx] = Slice(stLen, stIdx)]
                            ELSE sessionStorage
       /\ IF r.err = "none"
          THEN /\ staged' = staged + 1
               /\ stIdx' = stIdx + 1
               /\ stErr' = stErr
               /\ IF MoreChunks(stIdx + 1, totalChunks)
                  THEN UNCHANGED <<stPc, stOut>>
                  ELSE /\ stPc' = "staged"
                       /\ stOut' = StageResolved(totalChunks)
               /\ wrOut' = wrOut
          ELSE /\ stErr' = r.err
               /\ staged' = staged
               /\ IF MoreCleanup(0, staged)
                  THEN /\ stPc' = "cleanup"
                       /\ stIdx' = 0
                       /\ UNCHANGED <<stOut, wrOut>>
                  ELSE /\ stIdx' = stIdx
                       /\ Rethrow(r.err)
  /\ UNCHANGED <<stLen, totalChunks, stRemovals, wrFail, notStageVars>>

\* api.ts:553-558  the removal of chunk i is dispatched and its promise
\* settles; a rejection is swallowed
CleanupChunk ==
  /\ stPc = "cleanup"
  /\ submitted' = Append(submitted, Code("removeItem", 0, 0))
  /\ \E r \in RemoveItemOutcomes :
       /\ sessionStorage' = IF r.ran
                            THEN [sessionStorage EXCEPT ![stIdx] = AbsentEntry]
                            ELSE sessionStorage
       /\ stRemovals' = Append(stRemovals, [idx |-> stIdx, ran |-> r.ran])
  /\ IF MoreCleanup(stIdx + 1, staged)
     THEN /\ stIdx' = stIdx + 1
          /\ UNCHANGED <<stPc, stOut, wrOut>>
     ELSE /\ stIdx' = stIdx
          /\ Rethrow(stErr)
  /\ UNCHANGED <<stLen, totalChunks, staged, stErr, wrFail, notStageVars>>

\* the statements of the write code that can throw, in their order in the
\* source, and "none" when none does
WriteSteps ==
  <<"isSecureContext", "getDirectory", "resolvePath", "getFileHandle",
    "createWritable", "atob", "write", "close", "none">>

StepIndex(f) == CHOOSE i \in 1..Len(WriteSteps) : WriteSteps[i] = f

\* api.ts:778-780 comes after createWritable (770) and before atob (782)
ReachesRemoval(f) == StepIndex(f) > StepIndex("createWritable")

\* api.ts:758-791  the write code is dispatched and its promise settles
WriteCode ==
  /\ stPc = "staged"
  /\ stPc' = "written"
  /\ submitted' = Append(submitted, Code("write", 0, 0))
  /\ \E ran \in BOOLEAN :
       \E f \in IF ran THEN {WriteSteps[i] : i \in 1..Len(WriteSteps)} ELSE {"none"} :
         /\ wrFail' = IF ran THEN f ELSE "not run"
         /\ sessionStorage' =
              IF ran /\ ReachesRemoval(f)
              THEN [i \in ChunkIdx |->
                      IF i < stOut.chunks THEN AbsentEntry ELSE sessionStorage[i]]
              ELSE sessionStorage
         /\ wrOut' = IF ~ran THEN StageRejected("Eval failed")
                     ELSE IF f = "none" THEN StageResolved(stOut.chunks)
                     ELSE StageRejected(f)
  /\ UNCHANGED <<stLen, totalChunks, staged, stIdx, stErr, stOut, stRemovals>>

\* the write of a payload whose target file is left out
WriteExec == WriteCode /\ UNCHANGED notStageVars

InitStage ==
  /\ DispInit /\ isSafari = FALSE
  /\ EvalIdle /\ EscIdle /\ ClassIdle /\ FacadeIdle /\ AppIdle
  /\ stPc = "start"
  /\ stLen \in StageLengths
  /\ totalChunks = 0
  /\ staged = 0
  /\ stIdx = 0
  /\ sessionStorage = [i \in ChunkIdx |-> AbsentEntry]
  /\ stErr = "none"
  /\ stOut = Pending
  /\ stRemovals = <<>>
  /\ wrOut = Pending
  /\ wrFail = "none"
  /\ submitted = <<>>

NextStage == StageCall \/ StageChunk \/ CleanupChunk \/ WriteExec
SpecStage == InitStage /\ [][NextStage]_vars

\* the least n >= 1 with n * CHUNK >= len
CeilMinOne(len) ==
  CHOOSE n \in 1..(MaxChunks + 2) :
    /\ n * CHUNK >= len
    /\ \A m \in 1..(n - 1) : m * CHUNK < len

\* the entries 0..n-1, read in index order, are the payload of length len
Reassembles(n, len) ==
  /\ sessionStorage[0].lo = 0
  /\ sessionStorage[n - 1].hi = len
  /\ \A i \in 0..(n - 1) : sessionStorage[i].lo <= sessionStorage[i].hi
                           /\ sessionStorage[i].hi - sessionStorage[i].lo <= CHUNK
  /\ \A i \in 0..(n - 2) : sessionStorage[i].hi = sessionStorage[i + 1].lo

\* C17: when stageBinaryData has resolved (and the write code has not run
\* yet), chunks = ceil(len / 65536), at least 1, exactly the entries
\* 0..chunks-1 are stored, and in index order they make up the payload.
C17_StagingReassembles ==
  stPc = "staged" =>
    /\ stOut.kind = "resolved"
    /\ stOut.chunks = CeilMinOne(stLen)
    /\ \A i \in ChunkIdx : sessionStorage[i].present <=> i < stOut.chunks
    /\ Reassembles(stOut.chunks, stLen)

\* a payload one character longer than a chunk is staged as two entries
C17_Witness ==
  /\ stPc = "staged"
  /\ stLen = CHUNK + 1
  /\ stOut = StageResolved(2)
  /\ sessionStorage[0] = [present |-> TRUE, lo |-> 0, hi |-> CHUNK]
  /\ sessionStorage[1] = [present |-> TRUE, lo |-> CHUNK, hi |-> CHUNK + 1]

\* C18: when stageBinaryData has rejected after chunk i failed, one removal
\* was issued and awaited for each of chunks 0..i-1 in order, the rejection
\* carries the original staging error, and every chunk 0..i-1 whose removal
\* ran is absent.
C18_CleanupThenOriginalError ==
  /\ stPc = "loop" => staged = stIdx  \* staged is the index of the chunk in flight
  /\ stPc = "rejected" =>
    /\ stOut = StageRejected(stErr)
    /\ stErr \in {r.err : r \in SetItemOutcomes} \ {"none"}
    /\ Len(stRemovals) = staged
    /\ \A k \in 1..Len(stRemovals) :
         /\ stRemovals[k].idx = k - 1
         /\ stRemovals[k].ran => ~sessionStorage[k - 1].present

\* chunk 2 failed on quota; a removal of chunk 0 failed, that of chunk 1 ran
C18_Witness ==
  /\ stPc = "rejected"
  /\ staged = 2
  /\ stOut = StageRejected("QuotaExceededError")
  /\ stRemovals = <<[idx |-> 0, ran |-> FALSE], [idx |-> 1, ran |-> TRUE]>>
  /\ ~sessionStorage[1].present

\* C19: after stageBinaryData has rejected, no entry under the staging key
\* remains, the failing chunk included.
C19_NoEntryAfterRejection ==
  stPc = "rejected" => \A i \in ChunkIdx : ~sessionStorage[i].present

\* C20: after a binary write whose staging succeeded and whose write code ran
\* in the page has settled, resolved or rejected, none of the chunks staged
\* for it remains.
C20_NoChunkAfterWrite ==
  (stOut.kind = "resolved" /\ wrOut.kind # "pending" /\ wrFail # "not run") =>
    \A i \in ChunkIdx : ~sessionStorage[i].present

\* C21: every code string submitted during a binary write embeds payload
\* characters of one 65536-character slice at most (only the setItem codes
\* embed any), and none embeds the whole of a payload longer than one slice.
C21_OneSlicePerCode ==
  \A k \in 1..Len(submitted) :
    LET c == submitted[k]
    IN  /\ c.stmt # "setItem" => c.lo = c.hi
        /\ \E i \in ChunkIdx : i * CHUNK <= c.lo /\ c.lo <= c.hi /\ c.hi <= (i + 1) * CHUNK
        /\ stLen > CHUNK => ~(c.lo = 0 /\ c.hi = stLen)

\* a payload of two slices and one character written in three setItem codes
\* and one write code
C21_Witness ==
  /\ stPc = "written" /\ wrFail = "none"
  /\ stLen = 2 * CHUNK + 1
  /\ Len(submitted) = 4
  /\ submitted[3] = Code("setItem", 2 * CHUNK, 2 * CHUNK + 1)
  /\ submitted[4] = Code("write", 0, 0)

\* ---------------------------------------------------------------------------
\* The file type detection injected into the page (api.ts:343-489).  A file
\* name is known by its part from the last dot on (every listed extension is
\* one dot followed by characters other than a dot, so name.endsWith(ext)
\* holds exactly when that part is ext); the bytes are runs of equal bytes.
\* ---------------------------------------------------------------------------

\* api.ts:344-360
opfs_textExtensions ==
  {".txt", ".json", ".js", ".jsx", ".ts", ".tsx", ".css", ".scss",
   ".sass", ".html", ".htm", ".md", ".markdown", ".xml", ".yaml",
   ".yml", ".toml", ".ini", ".cfg", ".env", ".gitignore", ".sh",
   ".bash", ".zsh", ".fish", ".py", ".rb", ".php", ".java", ".c",
   ".cpp", ".h", ".hpp", ".rs", ".go", ".swift", ".kt", ".sql",
   ".graphql", ".vue", ".svelte", ".astro", ".scene", ".prefab",
   ".asset", ".meta", ".shader", ".glsl", ".wgsl", ".hlsl",
   ".material", ".anim", ".controller", ".tscn", ".gd", ".tres",
   ".godot", ".unity", ".conf", ".config", ".lock", ".map", ".csv",
   ".tsv", ".log", ".properties", ".plist", ".strings", ".tf", ".hcl",
   ".proto", ".lua", ".r", ".dart", ".ex", ".exs", ".erl", ".hs",
   ".elm", ".clj", ".cljs", ".coffee", ".asm", ".s"}

\* api.ts:363-371
opfs_binaryExtensions ==
  {".wasm", ".db", ".sqlite", ".sqlite3", ".bin", ".dat", ".exe",
   ".dll", ".so", ".dylib", ".o", ".obj", ".lib", ".a", ".class",
   ".pyc", ".pyo", ".zip", ".tar", ".gz", ".tgz", ".bz2", ".xz",
   ".7z", ".rar", ".pdf", ".doc", ".docx", ".xls", ".xlsx", ".ppt",
   ".pptx", ".mp3", ".mp4", ".avi", ".mov", ".mkv", ".wav", ".flac",
   ".ogg", ".aac", ".pb", ".onnx", ".parquet", ".arrow", ".npy",
   ".npz", ".ttf", ".otf", ".woff", ".woff2"}

\* api.ts:390
imageExtensions ==
  {".jpg", ".jpeg", ".png", ".gif", ".webp", ".svg", ".ico", ".bmp", ".avif"}

\* String.prototype.toLowerCase on the names used here
ToLowerCase(ext) ==
  CASE ext = ".PNG" -> ".png"
    [] ext = ".TXT" -> ".txt"
    [] OTHER -> ext

\* variant of opfs_isImageFile that goes by the declared type alone
opfs_isImageFileByType(file) == file.type.top = "image"
\* api.ts:389-393  __opfs_isImageFile
opfs_isImageFile(file) ==
  file.type.top = "image" \/ ToLowerCase(file.ext) \in imageExtensions

\* api.ts:401-406  the declared types that mean text
IsTextMime(type) ==
  \/ type.top = "text"
  \/ type = Mime("application", "json")
  \/ type = Mime("application", "javascript")
  \/ type = Mime("application", "xml")

\* sub types that start with "vnd."
VndSubs == {"vnd.ms-excel", "vnd.apple.mpegurl"}

\* api.ts:407-416  the declared types that mean binary
IsBinaryMime(type) ==
  \/ type = Mime("application", "octet-stream")
  \/ type = Mime("application", "wasm")
  \/ type.top = "audio"
  \/ type.top = "video"
  \/ type = Mime("application", "pdf")
  \/ type = Mime("application", "zip")
  \/ (type.top = "application" /\ type.sub \in VndSubs
        /\ type # Mime("application", "vnd.apple.mpegurl"))

\* bytes as runs [b, n]: n copies of byte b
Run(b, n) == [b |-> b, n |-> n]

RECURSIVE SizeOf(_)
SizeOf(runs) == IF runs = <<>> THEN 0 ELSE Head(runs).n + SizeOf(Tail(runs))

\* api.ts:426  Math.min(4096, file.size)
SampleLimit == 4096

\* api.ts:427  file.slice(0, sampleSize): the first k bytes
RECURSIVE TakeBytes(_, _)
TakeBytes(runs, k) ==
  IF runs = <<>> \/ k = 0 THEN <<>>
  ELSE IF Head(runs).n >= k THEN <<Run(Head(runs).b, k)>>
  ELSE <<Head(runs)>> \o TakeBytes(Tail(runs), k - Head(runs).n)

\* bytes[i], counted from 0; 0 beyond the end (api.ts:432-433)
RECURSIVE ByteAt(_, _)
ByteAt(runs, i) ==
  IF runs = <<>> THEN 0
  ELSE IF i < Head(runs).n THEN Head(runs).b
  ELSE ByteAt(Tail(runs), i - Head(runs).n)

\* api.ts:430-450  the magic byte signatures
HasMagic(bytes) ==
  /\ SizeOf(bytes) >= 2
  /\ LET b0 == ByteAt(bytes, 0)
         b1 == ByteAt(bytes, 1)
         b2 == ByteAt(bytes, 2)
         b3 == ByteAt(bytes, 3)
     IN  \/ (b0 = 137 /\ b1 = 80 /\ b2 = 78 /\ b3 = 71)    \* PNG
         \/ (b0 = 255 /\ b1 = 216)                          \* JPEG
         \/ (b0 = 71 /\ b1 = 73 /\ b2 = 70)                 \* GIF
         \/ (b0 = 37 /\ b1 = 80 /\ b2 = 68 /\ b3 = 70)      \* PDF
         \/ (b0 = 80 /\ b1 = 75)                            \* ZIP
         \/ (b0 = 127 /\ b1 = 69 /\ b2 = 76 /\ b3 = 70)     \* ELF
         \/ (b0 = 0 /\ b1 = 97 /\ b2 = 115 /\ b3 = 109)     \* WASM
         \/ (b0 = 83 /\ b1 = 81 /\ b2 = 76 /\ b3 = 105)     \* SQLite
         \/ (b0 = 31 /\ b1 = 139)                           \* GZip
         \/ (b0 = 66 /\ b1 = 90 /\ b2 = 104)                \* BZip2
         \/ (b0 = 253 /\ b1 = 55 /\ b2 = 122)               \* XZ
         \/ (b0 = 82 /\ b1 = 73 /\ b2 = 70 /\ b3 = 70)      \* RIFF
         \/ (b0 = 79 /\ b1 = 103 /\ b2 = 103 /\ b3 = 83)    \* OGG
         \/ (b0 = 202 /\ b1 = 254 /\ b2 = 186 /\ b3 = 190)  \* Java class
         \/ (b0 = 77 /\ b1 = 90)                            \* MZ
         \/ (b0 = 55 /\ b1 = 122 /\ b2 = 188 /\ b3 = 175)   \* 7-zip

\* the number of bytes of the sample that are in the set S
RECURSIVE CountBytes(_, _)
CountBytes(runs, S) ==
  IF runs = <<>> THEN 0
  ELSE (IF Head(runs).b \in S THEN Head(runs).n ELSE 0) + CountBytes(Tail(runs), S)

\* api.ts:459  b === 0x00
NullBytes == {b \in 0..255 : b = 0}
\* api.ts:460  else if (b > 0x7E)
HighBytes == {b \in 0..255 : b > 126}
\* api.ts:461  else if (b < 0x20 && b !== 0x09 && b !== 0x0A && b !== 0x0D)
ControlBytes == {b \in 0..255 : b # 0 /\ b < 32 /\ b \notin {9, 10, 13}}

\* api.ts:467, 469  count / bytes.length > percent / 100, false for an empty sample
RatioAbove(count, len, percent) == count * 100 > percent * len

\* api.ts:465-469  the byte statistics that mean binary
StatsSayBinary(bytes) ==
  \/ CountBytes(bytes, NullBytes) > 0
  \/ RatioAbove(CountBytes(bytes, HighBytes), SizeOf(bytes), 30)
  \/ RatioAbove(CountBytes(bytes, ControlBytes), SizeOf(bytes), 10)

\* String.prototype.trimStart on the decoded sample: the bytes after the
\* leading white space (tab, LF, VT, FF, CR, space)
RECURSIVE TrimStart(_)
TrimStart(runs) ==
  IF runs = <<>> THEN <<>>
  ELSE IF Head(runs).b \in {9, 10, 11, 12, 13, 32} THEN TrimStart(Tail(runs))
  ELSE runs

\* api.ts:472-481  the text openers { [ < # // /* -- ; ---
HasTextOpener(bytes) ==
  LET t == TrimStart(bytes)
      c0 == ByteAt(t, 0)
      c1 == ByteAt(t, 1)
  IN  /\ t # <<>>
      /\ \/ c0 \in {123, 91, 60, 35, 59}
         \/ (c0 = 47 /\ SizeOf(t) >= 2 /\ c1 \in {47, 42})
         \/ (c0 = 45 /\ SizeOf(t) >= 2 /\ c1 = 45)

\* api.ts:483  nullCount === 0 && highCount === 0 && controlCount === 0
AllClean(bytes) ==
  /\ CountBytes(bytes, NullBytes) = 0
  /\ CountBytes(bytes, HighBytes) = 0
  /\ CountBytes(bytes, ControlBytes) = 0

\* variant of EmptyFileType
EmptyFileTypeUnknown == "unknown"
\* api.ts:424  if (file.size === 0) return 'text'
EmptyFileType == "text"

\* api.ts:423-485  strategy 4
SniffContent(file) ==
  IF SizeOf(file.content) = 0 THEN EmptyFileType
  ELSE LET bytes == TakeBytes(file.content, SampleLimit)
       IN  IF HasMagic(bytes) THEN "binary"
           ELSE IF StatsSayBinary(bytes) THEN "binary"
           ELSE IF HasTextOpener(bytes) THEN "text"
           ELSE IF AllClean(bytes) THEN "text"
           ELSE "unknown"

\* api.ts:397-489  __opfs_detectFileType
opfs_detectFileType(file) ==
  IF opfs_isImageFile(file) THEN "image"
  ELSE IF IsTextMime(file.type) THEN "text"
  ELSE IF IsBinaryMime(file.type) THEN "binary"
  ELSE IF ToLowerCase(file.ext) \in opfs_textExtensions THEN "text"
  ELSE IF ToLowerCase(file.ext) \in opfs_binaryExtensions THEN "binary"
  ELSE SniffContent(file)

\* most runs of equal bytes in a file's content
MaxRuns == 2

\* bytes of the files classified: NUL, a control byte, tab, 'K', 'P', 'a',
\* '{', DEL, and a byte with the high bit set
SampleBytes == {0, 1, 9, 75, 80, 97, 123, 127, 128}
ClassRuns ==
  {Run(b, 1) : b \in SampleBytes}
    \cup {Run(b, n) : b \in {97, 127, 128}, n \in {3, 7, 9}}
    \cup {Run(97, SampleLimit)}
ClassContents == UNION {[1..n -> ClassRuns] : n \in 0..MaxRuns}
ClassExts == {".PNG", ".txt", ".bin", ".xyz", ""}
ClassMimes ==
  {NoType, Mime("text", "plain"), Mime("application", "octet-stream"), Mime("audio", "mpeg"),
   Mime("application", "vnd.ms-excel"), Mime("application", "vnd.apple.mpegurl"),
   Mime("image", "png"), Mime("application", "x-foo")}

\* api.ts:397-485  __opfs_detectFileType returns
Classify ==
  /\ clPc = "start"
  /\ clPc' = "done"
  /\ clResult' = opfs_detectFileType(clFile)
  /\ UNCHANGED <<clFile, notClassVars>>

\* none of the strategies 1 to 3 decides the file
ReachesSniffing(file) ==
  /\ ~opfs_isImageFile(file)
  /\ ~IsTextMime(file.type)
  /\ ~IsBinaryMime(file.type)
  /\ ToLowerCase(file.ext) \notin opfs_textExtensions
  /\ ToLowerCase(file.ext) \notin opfs_binaryExtensions

\* api.ts:427, 486-488  reading the sample throws: catch (e) { return 'unknown' }
ClassifyReadFails ==
  /\ clPc = "start"
  /\ ReachesSniffing(clFile) /\ SizeOf(clFile.content) > 0
  /\ clPc' = "failed"
  /\ clResult' = "unknown"
  /\ UNCHANGED <<clFile, notClassVars>>

InitClassify ==
  /\ DispInit /\ isSafari = FALSE
  /\ EvalIdle /\ EscIdle /\ StageIdle /\ FacadeIdle /\ AppIdle
  /\ clPc = "start"
  /\ clFile \in {FileOf(e, t, c) : e \in ClassExts, t \in ClassMimes, c \in ClassContents}
  /\ clResult = "none"

NextClassify == Classify \/ ClassifyReadFails
SpecClassify == InitClassify /\ [][NextClassify]_vars

\* The ordered procedure of the specification, first match wins.
HighBitBytes == 128..255
HighBitStatsSayBinary(bytes) ==
  \/ CountBytes(bytes, NullBytes) > 0
  \/ CountBytes(bytes, HighBitBytes) * 100 > 30 * SizeOf(bytes)
  \/ CountBytes(bytes, ControlBytes) * 100 > 10 * SizeOf(bytes)

OrderedRules(file) ==
  LET sample == TakeBytes(file.content, 4096)
      ext == ToLowerCase(file.ext)
  IN  << <<file.type.top = "image" \/ ext \in imageExtensions, "image">>,
         <<IsTextMime(file.type), "text">>,
         <<IsBinaryMime(file.type), "binary">>,
         <<ext \in opfs_textExtensions, "text">>,
         <<ext \in opfs_binaryExtensions, "binary">>,
         <<HasMagic(sample), "binary">>,
         <<HighBitStatsSayBinary(sample), "binary">>,
         <<HasTextOpener(sample), "text">>,
         <</\ CountBytes(sample, NullBytes) = 0
           /\ CountBytes(sample, HighBitBytes) = 0
           /\ CountBytes(sample, ControlBytes) = 0, "text">>,
         <<TRUE, "unknown">> >>

FirstMatch(rules) ==
  rules[CHOOSE i \in 1..Len(rules) : rules[i][1] /\ \A j \in 1..(i - 1) : ~rules[j][1]][2]

\* C28: __opfs_detectFileType returns what the ordered first-match procedure
\* gives, for every name, declared type and content, and always one of text,
\* binary, image, unknown.
C28_OrderedProcedure ==
  clPc = "done" =>
    /\ clResult = FirstMatch(OrderedRules(clFile))
    /\ clResult \in {"text", "binary", "image", "unknown"}

\* C29 as stated: every file of size 0 is classified 'text'.
C29_EmptyAlwaysText ==
  (clPc = "done" /\ SizeOf(clFile.content) = 0) => clResult = "text"

\* C29 (amended): every file of size 0 that neither name nor declared type
\* decides is classified 'text'; an empty file that they decide gets the class
\* they give.
C29_EmptyUndecidedIsText ==
  (clPc = "done" /\ SizeOf(clFile.content) = 0) =>
    /\ ReachesSniffing(clFile) => clResult = "text"
    /\ ~ReachesSniffing(clFile) =>
         clResult = opfs_detectFileType(FileOf(clFile.ext, clFile.type, <<Run(97, 1)>>))

\* an empty file with an unlisted extension and no declared type
C29_Witness ==
  /\ clPc = "done"
  /\ clFile = FileOf(".xyz", NoType, <<>>)
  /\ clResult = "text"

\* C30: for a file that reaches content sniffing with no magic signature, the
\* result is 'binary' exactly when the sample has a null byte, or more than
\* 30% bytes >= 0x80, or more than 10% control bytes other than tab, LF, CR.
C30_ByteClassTests ==
  LET sample == TakeBytes(clFile.content, 4096)
  IN  (clPc = "done" /\ ReachesSniffing(clFile) /\ sample # <<>> /\ ~HasMagic(sample)) =>
        (clResult = "binary" <=> HighBitStatsSayBinary(sample))

(***************************************************************************)
(* Part VI: the operation facade opfsApi (api.ts:564-1040).                *)
(*                                                                         *)
(* A text is a short sequence of characters followed by `pad' letters x; a *)
(* file holds bytes, as runs of equal bytes.                               *)
(***************************************************************************)
BOM == "BOM"  \* U+FEFF
HS == "HS"    \* a lone (unpaired) surrogate code unit
RC == "RC"    \* U+FFFD, the replacement character

Text(chars, pad) == [chars |-> chars, pad |-> pad]
Hello == Text(<<"h", "e", "l", "l", "o">>, 0)

\* the characters with a one-byte UTF-8 encoding, and that byte
AsciiOf ==
  [c \in {"h", "e", "l", "o", "x", "n", "0", "8", DQ, SQ, BS, LF, CR, TAB, NUL, OtherChar} |->
     CASE c = "h" -> 104 [] c = "e" -> 101 [] c = "l" -> 108 [] c = "o" -> 111
       [] c = "x" -> 120 [] c = "n" -> 110 [] c = "0" -> 48 [] c = "8" -> 56
       [] c = DQ -> 34 [] c = SQ -> 39 [] c = BS -> 92 [] c = LF -> 10
       [] c = CR -> 13 [] c = TAB -> 9 [] c = NUL -> 0 [] c = OtherChar -> 63]

\* WebIDL USVString conversion of one code unit: writable.write(string)
\* (api.ts:807) takes a USVString, so a lone surrogate becomes U+FFFD
ToUSV(c) == IF c = HS THEN RC ELSE c

\* UTF-8 encoding of one scalar value
Utf8Of(c) ==
  CASE c = LS -> <<226, 128, 168>>
    [] c = PS -> <<226, 128, 169>>
    [] c = BOM -> <<239, 187, 191>>
    [] c = RC -> <<239, 191, 189>>
    [] OTHER -> <<AsciiOf[c]>>

RECURSIVE Utf8Encode(_)
Utf8Encode(chars) ==
  IF chars = <<>> THEN <<>> ELSE Utf8Of(ToUSV(Head(chars))) \o Utf8Encode(Tail(chars))

RECURSIVE RunsOf(_)
RunsOf(bytes) ==
  IF bytes = <<>> THEN <<>> ELSE <<Run(Head(bytes), 1)>> \o RunsOf(Tail(bytes))

\* api.ts:807-808  the bytes writable.write(text) stores
BytesOfText(t) ==
  RunsOf(Utf8Encode(t.chars)) \o (IF t.pad > 0 THEN <<Run(AsciiOf["x"], t.pad)>> ELSE <<>>)

\* the character of a byte below 0x80
AsciiChar(b) ==
  LET cs == {c \in DOMAIN AsciiOf \ {OtherChar} : AsciiOf[c] = b}
  IN  IF cs = {} THEN OtherChar ELSE CHOOSE c \in cs : TRUE

\* UTF-8 decoding (WHATWG Encoding) of the byte sequences above; any other
\* byte at or above 0x80 decodes to U+FFFD
RECURSIVE Utf8Chars(_)
Utf8Chars(bytes) ==
  IF bytes = <<>> THEN <<>>
  ELSE
    LET b == Head(bytes)
        three == IF Len(bytes) >= 3 THEN SubSeq(bytes, 1, 3) ELSE <<>>
        known == {c \in {LS, PS, BOM, RC} : Utf8Of(c) = three}
    IN  IF b < 128
        THEN <<AsciiChar(b)>> \o Utf8Chars(Tail(bytes))
        ELSE IF known # {}
        THEN <<CHOOSE c \in known : TRUE>> \o Utf8Chars(SubSeq(bytes, 4, Len(bytes)))
        ELSE <<RC>> \o Utf8Chars(Tail(bytes))

\* variant of StripBOM that keeps the byte order mark
StripBOMKeeps(chars) == chars
\* "UTF-8 decode" removes one leading byte order mark
StripBOM(chars) == IF chars # <<>> /\ Head(chars) = BOM THEN Tail(chars) ELSE chars

\* the bytes of the single runs at the front, and the runs after them
RECURSIVE FrontBytes(_)
FrontBytes(runs) ==
  IF runs = <<>> \/ Head(runs).n # 1 THEN <<>>
  ELSE <<Head(runs).b>> \o FrontBytes(Tail(runs))
BackRuns(runs) == SubSeq(runs, Len(FrontBytes(runs)) + 1, Len(runs))

Garbled == Text(<<OtherChar>>, 0)

\* api.ts:626, 708  file.text(): the UTF-8 decoding of the file's bytes
\* (bytes the texts and payloads below cannot produce read as Garbled)
FileText(runs) ==
  LET back == BackRuns(runs)
      chars == StripBOM(Utf8Chars(FrontBytes(runs)))
  IN  IF back = <<>> THEN Text(chars, 0)
      ELSE IF Len(back) = 1 /\ back[1].b = AsciiOf["x"]
      THEN Text(chars, back[1].n)
      ELSE Garbled

\* The base64 alphabet, in the order of its values 0..63.
B64Table ==
  <<"A", "B", "C", "D", "E", "F", "G", "H", "I", "J", "K", "L", "M", "N", "O", "P",
    "Q", "R", "S", "T", "U", "V", "W", "X", "Y", "Z", "a", "b", "c", "d", "e", "f",
    "g", "h", "i", "j", "k", "l", "m", "n", "o", "p", "q", "r", "s", "t", "u", "v",
    "w", "x", "y", "z", "0", "1", "2", "3", "4", "5", "6", "7", "8", "9", "+", "/">>
B64Chars == {B64Table[i] : i \in 1..64}
B64Val(c) == (CHOOSE i \in 1..64 : B64Table[i] = c) - 1
B64Char(v) == B64Table[v + 1]

RECURSIVE B64Bytes(_)
\* the bytes of base64 characters, the last 2 or 3 characters giving 1 or 2
\* bytes and their spare bits being dropped
B64Bytes(cs) ==
  IF Len(cs) < 2 THEN <<>>
  ELSE
    LET v(i) == IF i <= Len(cs) THEN B64Val(cs[i]) ELSE 0
        n == v(1) * 262144 + v(2) * 4096 + v(3) * 64 + v(4)
        all == <<n \div 65536, (n \div 256) % 256, n % 256>>
    IN  IF Len(cs) >= 4 THEN all \o B64Bytes(SubSeq(cs, 5, Len(cs)))
        ELSE SubSeq(all, 1, Len(cs) - 1)

\* api.ts:782  atob(base64): forgiving-base64 decode
Atob(cs) ==
  LET n == Len(cs)
      cut == IF n % 4 = 0 /\ n > 0 /\ cs[n] = "="
             THEN (IF cs[n - 1] = "=" THEN 2 ELSE 1) ELSE 0
      data == SubSeq(cs, 1, n - cut)
  IN  IF Len(data) % 4 = 1 \/ \E i \in 1..Len(data) : data[i] \notin B64Chars
      THEN [ok |-> FALSE, bytes |-> <<>>]
      ELSE [ok |-> TRUE, bytes |-> B64Bytes(data)]

RECURSIVE Btoa(_)
\* api.ts:681  btoa(binary)
Btoa(bytes) ==
  IF bytes = <<>> THEN <<>>
  ELSE
    LET b(i) == IF i <= Len(bytes) THEN bytes[i] ELSE 0
        n == b(1) * 65536 + b(2) * 256 + b(3)
        all == <<B64Char(n \div 262144), B64Char((n \div 4096) % 64),
                 B64Char((n \div 64) % 64), B64Char(n % 64)>>
    IN  IF Len(bytes) >= 3 THEN all \o Btoa(SubSeq(bytes, 4, Len(bytes)))
        ELSE IF Len(bytes) = 2 THEN SubSeq(all, 1, 3) \o <<"=">>
        ELSE SubSeq(all, 1, 2) \o <<"=", "=">>

\* A base64 string: `fill' characters A followed by the characters of tail.
B64(fill, tail) == [fill |-> fill, tail |-> tail]
B64Len(p) == p.fill + Len(p.tail)

RECURSIVE Fill(_, _)
Fill(c, n) == IF n = 0 THEN <<>> ELSE <<c>> \o Fill(c, n - 1)

Max(a, b) == IF a >= b THEN a ELSE b

\* the characters [lo, hi) of p
PieceOf(p, lo, hi) ==
  B64(Max(Min(hi, p.fill) - lo, 0),
      SubSeq(p.tail, Max(lo - p.fill, 0) + 1, hi - p.fill))

\* atob of a string A...A tail: every four A give three zero bytes
AtobB64(p) ==
  LET rest == Atob(Fill("A", p.fill % 4) \o p.tail)
      zeros == 3 * (p.fill \div 4)
  IN  [ok |-> rest.ok,
       bytes |-> (IF zeros > 0 THEN <<Run(0, zeros)>> ELSE <<>>) \o RunsOf(rest.bytes)]

\* btoa of bytes: a run of zero bytes at the front, then single bytes
\* (files of another shape are not written by the calls below)
BtoaRuns(runs) ==
  LET zeros == IF runs # <<>> /\ runs[1].b = 0 /\ runs[1].n > 1 THEN runs[1].n ELSE 0
      rest == IF zeros > 0 THEN Tail(runs) ELSE runs
  IN  IF BackRuns(rest) # <<>> THEN B64(0, <<"?">>)
      ELSE B64(4 * (zeros \div 3), Btoa(Fill(0, zeros % 3) \o FrontBytes(rest)))

(***************************************************************************)
(* The file system and the helpers injected into the page.                 *)
(***************************************************************************)
\* api.ts:613-615  parts.pop() and parts.join("/")
NameOf(p) == IF p = "a/b.txt" THEN "b.txt" ELSE p
Parent(p) == IF p = "a/b.txt" THEN "a" ELSE Root
\* the path of name in directory d, when the model has it
Join(d, name) == IF d = Root THEN name ELSE IF d = "a" /\ name = "b.txt" THEN "a/b.txt" ELSE "?"
\* the name from its last dot on
ExtOf(p) ==
  CASE NameOf(p) = "b.txt" -> ".txt" [] NameOf(p) = "img.png" -> ".png" [] OTHER -> ""

\* every file stored in the origin private file system has file.type === ""
FileAt(f, p) == FileOf(ExtOf(p), NoType, f[p].content)

\* api.ts:332-341  __opfs_resolvePath(dirPath) finds a directory
DirOk(f, d) == d = Root \/ (d \in Paths /\ f[d].kind = "directory")

\* variant of opfs_isTextFile that goes by the declared type alone
opfs_isTextFileByType(file) == file.type.top = "text"
\* api.ts:374-386  __opfs_isTextFile
opfs_isTextFile(file) ==
  IF file.type.top = "text" \/ file.type \in {Mime("application", "json"),
       Mime("application", "javascript"), Mime("application", "xml")}
  THEN TRUE
  ELSE IF file.type # NoType THEN FALSE
  ELSE ToLowerCase(file.ext) \in opfs_textExtensions

\* api.ts:492-504  __opfs_getMimeType, for the names of the model
opfs_getMimeType(file) ==
  IF file.type # NoType THEN file.type
  ELSE CASE ToLowerCase(file.ext) = ".png" -> Mime("image", "png")
         [] ToLowerCase(file.ext) = ".txt" -> Mime("text", "plain")
         [] OTHER -> Mime("application", "octet-stream")

(***************************************************************************)
(* The values an operation's code returns, and what it throws.             *)
(***************************************************************************)
VVoid == [tag |-> "undefined"]
VBool(b) == [tag |-> "boolean", b |-> b]
VString(t) == [tag |-> "string", text |-> t]
\* a sentinel string, by its prefix
VSentinel(prefix) == [tag |-> "sentinel", prefix |-> prefix]
VDataUrl(mime, b64) == [tag |-> "dataUrl", mime |-> mime, b64 |-> b64]
VEntries(es) == [tag |-> "entries", entries |-> es]
VEstimate == [tag |-> "estimate"]
FileReadResult(content, mime, size, isBase64, detectedType, isLargeText) ==
  [tag |-> "FileReadResult", content |-> content, mimeType |-> mime, size |-> size,
   isBase64 |-> isBase64, detectedType |-> detectedType, isLargeText |-> isLargeText]

\* new Error(message), and the DOMException of a file system call
ErrorOf(m) == [nullish |-> FALSE, message |-> m, str |-> "Error"]
SecureContextError == ErrorOf("OPFS requires a Secure Context (HTTPS or localhost).")
NotSupportedError == ErrorOf("OPFS API not supported in this browser.")
StorageNotSupportedError == ErrorOf("Storage API not supported.")
NotFoundError == ErrorOf("NotFoundError")
TypeMismatchError == ErrorOf("TypeMismatchError")
InvalidCharacterError == ErrorOf("InvalidCharacterError")

\* A storage call of the page that fails for a reason of the page's own: at
\* the first use of navigator.storage, with a value that has no message, or
\* at createWritable/write/close.
NoFault == [at |-> "none", t |-> ErrorOf("none")]
Fault(at, t) == [at |-> at, t |-> t]
FaultOf(at) ==
  CASE at = "storage" -> Fault(at, CHOOSE t \in Thrown : ~t.nullish /\ t.message = Undef)
    [] at = "createWritable" -> Fault(at, CHOOSE t \in Thrown : t.message = "boom")
    [] OTHER -> NoFault

\* what running an operation's code in the page gives: the status and fields
\* of the operation record, and the file system afterwards
PageDone(v, f) == [status |-> "done", error |-> Undef, val |-> v, fs |-> f]
PageThrew(t, f) == [status |-> "error", error |-> ThrownMessage(t), val |-> VVoid, fs |-> f]

Env(secure, storage, hasMove, fault) ==
  [secure |-> secure, storage |-> storage, hasMove |-> hasMove, fault |-> fault]

\* variant of Guarded without the secure context check
GuardedStorageOnly(env, f, flt, rest) ==
  IF env.storage # "full" THEN PageThrew(NotSupportedError, f)
  ELSE IF flt.at = "storage" THEN PageThrew(flt.t, f)
  ELSE rest
\* the two checks every operation but getStorageEstimate and exists starts with
\* (api.ts:573-574 and the like), then the first use of navigator.storage
Guarded(env, f, flt, rest) ==
  IF ~env.secure THEN PageThrew(SecureContextError, f)
  ELSE IF env.storage # "full" THEN PageThrew(NotSupportedError, f)
  ELSE IF flt.at = "storage" THEN PageThrew(flt.t, f)
  ELSE rest

\* what __opfs_resolvePath throws for a directory d it does not find
ResolveError(f, d) == IF f[d].kind = "file" THEN TypeMismatchError ELSE NotFoundError

\* getFileHandle(name) / getDirectoryHandle(name) without create
MissingOr(f, p, kind) ==
  IF ~DirOk(f, Parent(p)) THEN ResolveError(f, Parent(p))
  ELSE IF f[p].kind = "absent" THEN NotFoundError
  ELSE IF f[p].kind # kind THEN TypeMismatchError
  ELSE ErrorOf("none")

\* api.ts:578-597  the entries of directory d: directories first, then by name
ListEntries(f, d) ==
  LET names == <<"a", "b.txt", "img.png">>
      entry(n) == [name |-> n, kind |-> f[Join(d, n)].kind, path |-> Join(d, n),
                   size |-> SizeOf(f[Join(d, n)].content)]
      there(k) == SelectSeq(names, LAMBDA n : Join(d, n) \in Paths /\ f[Join(d, n)].kind = k)
      all == there("directory") \o there("file")
  IN  [i \in 1..Len(all) |-> entry(all[i])]

\* api.ts:568-600  list(path)
ListCode(env, f, d, flt) ==
  Guarded(env, f, flt,
    IF ~DirOk(f, d)
    THEN PageThrew(ResolveError(f, d), f)
    ELSE PageDone(VEntries(ListEntries(f, d)), f))

OneMB == 1048576

\* api.ts:605-632  read(path)
ReadCode(env, f, p, flt) ==
  Guarded(env, f, flt,
    IF MissingOr(f, p, "file").message # "none" THEN PageThrew(MissingOr(f, p, "file"), f)
    ELSE IF SizeOf(f[p].content) > OneMB THEN PageDone(VSentinel("[BINARY_OR_LARGE]"), f)
    ELSE IF opfs_isTextFile(FileAt(f, p)) THEN PageDone(VString(FileText(f[p].content)), f)
    ELSE PageDone(VSentinel("[BINARY_OR_LARGE]"), f))

ImageMax == 5242880
TextMax == 10485760

\* variant of IsLargeText that flags a file of exactly the threshold
IsLargeTextFromThreshold(size) == size >= OneMB
\* api.ts:695, 706  file.size > LARGE_THRESHOLD
IsLargeText(size) == size > OneMB

\* api.ts:638-740  readWithMeta(path, {forceText})
ReadWithMetaCode(env, f, p, forceText, flt) ==
  Guarded(env, f, flt,
    IF MissingOr(f, p, "file").message # "none" THEN PageThrew(MissingOr(f, p, "file"), f)
    ELSE
      LET file == FileAt(f, p)
          mimeType == opfs_getMimeType(file)
          size == SizeOf(file.content)
          detectedType == IF forceText THEN "text" ELSE opfs_detectFileType(file)
      IN  PageDone(
            CASE detectedType = "image" ->
                   IF size > ImageMax
                   THEN FileReadResult(VSentinel("[TOO_LARGE]"), mimeType, size, FALSE, "image", FALSE)
                   ELSE FileReadResult(VDataUrl(mimeType, BtoaRuns(file.content)),
                                       mimeType, size, TRUE, "image", FALSE)
              [] detectedType = "text" ->
                   IF size > TextMax
                   THEN FileReadResult(VSentinel("[TOO_LARGE]"), mimeType, size, FALSE, "text", FALSE)
                   ELSE FileReadResult(VString(FileText(file.content)), mimeType, size,
                                       FALSE, "text", IsLargeText(size))
              [] detectedType = "unknown" ->
                   FileReadResult(VSentinel("[UNKNOWN_TYPE]"), mimeType, size, FALSE, "unknown", FALSE)
              [] OTHER ->
                   FileReadResult(VSentinel("[BINARY]"), mimeType, size, FALSE, "binary", FALSE),
            f))

\* getFileHandle(name, {create: true}): the file system once the file is there
Created(f, p) == IF f[p].kind = "absent" THEN [f EXCEPT ![p] = FileNode(<<>>)] ELSE f

\* lines 800-808 of both branches of write, from the resolved directory on:
\* the file is created if missing, then its bytes are replaced on close
StoreCode(f, p, flt, bytes) ==
  IF ~DirOk(f, Parent(p)) THEN PageThrew(ResolveError(f, Parent(p)), f)
  ELSE IF f[p].kind = "directory" THEN PageThrew(TypeMismatchError, f)
  ELSE IF flt.at = "createWritable" THEN PageThrew(flt.t, Created(f, p))
  ELSE PageDone(VBool(TRUE), [f EXCEPT ![p] = FileNode(bytes)])

\* variant of WrittenText that stores the escaped text
WrittenTextEscaped(t) == [ok |-> TRUE, value |-> escapeString(t.chars)]
\* api.ts:793, 807  the string the literal "${safeContent}" denotes in the page
WrittenText(t) == EvalLiteral(escapeString(t.chars), DQ)

\* api.ts:793-811  write(path, content, false); code that does not parse
\* fails the submission as a whole
WriteTextCode(env, f, p, t, flt) ==
  IF ~WrittenText(t).ok THEN [status |-> "none", error |-> "SyntaxError", val |-> VVoid, fs |-> f]
  ELSE Guarded(env, f, flt,
         StoreCode(f, p, flt, BytesOfText(Text(WrittenText(t).value, t.pad))))

\* api.ts:773-776  the string put together from the staged entries 0..n-1,
\* which hold consecutive pieces of the payload b
Reassembled(b, entries, n) ==
  LET there == {i \in 0..(n - 1) : entries[i].present}
  IN  IF there = {} THEN B64(0, <<>>)
      ELSE PieceOf(b, entries[CHOOSE i \in there : \A j \in there : i <= j].lo,
                      entries[CHOOSE i \in there : \A j \in there : i >= j].hi)

\* api.ts:758-791  the code of write(path, content, true), the payload being
\* staged in `entries'
WriteBinaryCode(env, f, p, b, entries, n, flt) ==
  Guarded(env, f, flt,
    IF ~DirOk(f, Parent(p)) THEN PageThrew(ResolveError(f, Parent(p)), f)
    ELSE IF f[p].kind = "directory" THEN PageThrew(TypeMismatchError, f)
    ELSE IF flt.at = "createWritable" THEN PageThrew(flt.t, Created(f, p))
    ELSE IF ~AtobB64(Reassembled(b, entries, n)).ok
    THEN PageThrew(InvalidCharacterError, Created(f, p))
    ELSE PageDone(VBool(TRUE),
                  [f EXCEPT ![p] = FileNode(AtobB64(Reassembled(b, entries, n)).bytes)]))

\* the statement of WriteSteps at which the code above threw
WriteBinaryFailure(env, f, p, b, entries, n, flt) ==
  IF ~env.secure THEN "isSecureContext"
  ELSE IF env.storage # "full" THEN "getDirectory"
  ELSE IF flt.at = "storage" \/ ~DirOk(f, Parent(p)) THEN "resolvePath"
  ELSE IF f[p].kind = "directory" THEN "getFileHandle"
  ELSE IF flt.at = "createWritable" THEN "createWritable"
  ELSE IF ~AtobB64(Reassembled(b, entries, n)).ok THEN "atob"
  ELSE "none"

\* api.ts:898-924  create(path, kind)
CreateCode(env, f, p, kind, flt) ==
  Guarded(env, f, flt,
    IF ~DirOk(f, Parent(p)) THEN PageThrew(ResolveError(f, Parent(p)), f)
    ELSE IF f[p].kind = "absent"
    THEN PageDone(VBool(TRUE), [f EXCEPT ![p] = IF kind = "file" THEN FileNode(<<>>) ELSE DirNode])
    ELSE IF f[p].kind # kind THEN PageThrew(TypeMismatchError, f)
    ELSE PageDone(VBool(TRUE), f))

\* removeEntry(name, {recursive: true})
Removed(f, p) ==
  [q \in Paths |-> IF q = p \/ Parent(q) = p THEN AbsentNode ELSE f[q]]

\* api.ts:929-946  delete(path)
DeleteCode(env, f, p, flt) ==
  Guarded(env, f, flt,
    IF ~DirOk(f, Parent(p)) THEN PageThrew(ResolveError(f, Parent(p)), f)
    ELSE IF f[p].kind = "absent" THEN PageThrew(NotFoundError, f)
    ELSE PageDone(VBool(TRUE), Removed(f, p)))

\* api.ts:951-983  download(path)
DownloadCode(env, f, p, flt) ==
  Guarded(env, f, flt,
    IF MissingOr(f, p, "file").message # "none" THEN PageThrew(MissingOr(f, p, "file"), f)
    ELSE PageDone(VBool(TRUE), f))

\* api.ts:988-1000  getStorageEstimate()
EstimateCode(env, f, flt) ==
  IF ~env.secure THEN PageThrew(SecureContextError, f)
  ELSE IF env.storage = "none" THEN PageThrew(StorageNotSupportedError, f)
  ELSE IF flt.at = "storage" THEN PageThrew(flt.t, f)
  ELSE PageDone(VEstimate, f)

\* variant of ExistsCode that throws where the other operations throw
ExistsCodeThrows(env, f, p, flt) ==
  Guarded(env, f, flt,
    IF p # Root /\ ~DirOk(f, Parent(p)) THEN PageThrew(NotFoundError, f)
    ELSE PageDone(VBool(p = Root \/ f[p].kind # "absent"), f))
\* api.ts:1005-1039  exists(path)
ExistsCode(env, f, p, flt) ==
  IF ~env.secure THEN PageDone(VBool(FALSE), f)
  ELSE IF env.storage # "full" THEN PageDone(VBool(FALSE), f)
  ELSE IF p = Root THEN PageDone(VBool(TRUE), f)
  ELSE IF flt.at = "storage" \/ ~DirOk(f, Parent(p)) THEN PageDone(VBool(FALSE), f)
  ELSE PageDone(VBool(f[p].kind # "absent"), f)

\* api.ts:509, 515  getFileHandle / getDirectoryHandle(newName, {create: true})
\* finds an entry of the other kind under the destination name
CopyBlocked(f, p, q) == f[q].kind \notin {"absent", f[p].kind}

\* api.ts:840-846, 883-889  handle.move to a free path, or __opfs_copyEntry
\* (api.ts:507-520) onto the destination followed by removeEntry of the old
\* name
Moved(env, f, p, q) ==
  IF env.hasMove THEN [f EXCEPT ![p] = AbsentNode, ![q] = f[p]]
  ELSE Removed([f EXCEPT ![q] = f[p]], p)

\* api.ts:818-850  rename(path, newName)
RenameCode(env, f, p, newName, flt) ==
  Guarded(env, f, flt,
    IF ~DirOk(f, Parent(p)) THEN PageThrew(ResolveError(f, Parent(p)), f)
    ELSE IF f[p].kind = "absent" THEN PageThrew(NotFoundError, f)
    ELSE IF ~env.hasMove /\ CopyBlocked(f, p, Join(Parent(p), newName))
    THEN PageThrew(TypeMismatchError, f)
    ELSE PageDone(VBool(TRUE), Moved(env, f, p, Join(Parent(p), newName))))

\* api.ts:855-893  move(oldPath, newPath)
MoveCode(env, f, p, q, flt) ==
  Guarded(env, f, flt,
    IF ~DirOk(f, Parent(p)) THEN PageThrew(ResolveError(f, Parent(p)), f)
    ELSE IF f[p].kind = "absent" THEN PageThrew(NotFoundError, f)
    ELSE IF ~DirOk(f, Parent(q)) THEN PageThrew(ResolveError(f, Parent(q)), f)
    ELSE IF ~env.hasMove /\ CopyBlocked(f, p, q) THEN PageThrew(TypeMismatchError, f)
    ELSE PageDone(VBool(TRUE), Moved(env, f, p, q)))

\* the renames and moves the model can follow: the entry goes to a path of
\* the model and takes no entries below it along; with handle.move the
\* destination is free, with the fallback it may be taken or the source itself
Movable(env, f, p, q) ==
  /\ q \in Paths
  /\ env.hasMove => (q # p /\ f[q].kind = "absent")
  /\ \A c \in Paths : Parent(c) = p => f[c].kind = "absent"
  /\ Parent(q) # p

(***************************************************************************)
(* The calls.                                                              *)
(***************************************************************************)
\* most calls made in one behaviour
MaxCalls == 2

NoArg == [text |-> Text(<<>>, 0), b64 |-> B64(0, <<>>), to |-> "", kind |-> "", flag |-> FALSE]
Call(op, path, arg) == [op |-> op, path |-> path, arg |-> arg]

PngMagic == <<"i", "V", "B", "O", "R", "w", "=", "=">>

\* the contents written: texts, and base64 payloads of one and of two chunks
FcTexts ==
  {Hello, Text(<<LS, PS, DQ>>, 0), Text(<<BS, LF, NUL, "0">>, 0), Text(<<BOM, "h">>, 0),
   Text(<<HS>>, 0), Text(<<>>, OneMB), Text(<<LS>>, OneMB - 2)}
FcPayloads ==
  {B64(0, PngMagic), B64(0, <<"i", "V", "B", "O", "R", "x">>), B64(0, <<"i">>),
   B64(0, <<>>), B64(CHUNK, PngMagic)}

CurrentEnv == Env(pgSecure, pgStorage, pgHasMove, pgFault)

\* how the dispatch of one operation can go: the code runs ("ok"), the
\* submission fails (api.ts:210), or a poll fails after the code ran (api.ts:235)
Transport(link) ==
  CASE link = "ok" -> [ran |-> TRUE, err |-> "none"]
    [] link = "poll" -> [ran |-> TRUE, err |-> "Polling error"]
    [] link = "submit" -> [ran |-> FALSE, err |-> "Eval failed"]

\* evalInPage(code) (api.ts:151-308): how its promise settles
EvalOutcome(tr, page) ==
  IF ~tr.ran THEN Rejected(tr.err)
  ELSE IF page.status = "none" THEN Rejected(page.error)
  ELSE IF tr.err # "none" THEN Rejected(tr.err)
  ELSE IF page.status = "done" THEN OnDone(FALSE, DoneRec(1, page.val)).settle
  ELSE OnError(FALSE, ErrorRec(1, page.error)).settle

VoidOps == {"write", "rename", "move", "create", "delete", "download"}

\* how the promise of a facade operation settled
FcResolved(v) == [kind |-> "resolved", message |-> "", val |-> v]
FcRejected(m) == [kind |-> "rejected", message |-> m, val |-> VVoid]

\* variant of FacadeSettle that turns a rejection into a result
FacadeSettleSwallows(op, out) ==
  FcResolved(IF out.kind = "resolved" /\ op \notin VoidOps THEN out.value ELSE VVoid)
\* `return evalInPage(code)` (api.ts:599, 631, 739, 999, 1038) and
\* `await evalInPage(code)` in the operations that return nothing
FacadeSettle(op, out) ==
  IF out.kind = "resolved"
  THEN FcResolved(IF op \in VoidOps THEN VVoid ELSE out.value)
  ELSE FcRejected(out.value)

\* the code each operation submits, run in the page
PageCode(c, env, f, flt) ==
  CASE c.op = "list" -> ListCode(env, f, c.path, flt)
    [] c.op = "read" -> ReadCode(env, f, c.path, flt)
    [] c.op = "readWithMeta" -> ReadWithMetaCode(env, f, c.path, c.arg.flag, flt)
    [] c.op = "write" -> WriteTextCode(env, f, c.path, c.arg.text, flt)
    [] c.op = "rename" -> RenameCode(env, f, c.path, c.arg.to, flt)
    [] c.op = "move" -> MoveCode(env, f, c.path, c.arg.to, flt)
    [] c.op = "create" -> CreateCode(env, f, c.path, c.arg.kind, flt)
    [] c.op = "delete" -> DeleteCode(env, f, c.path, flt)
    [] c.op = "download" -> DownloadCode(env, f, c.path, flt)
    [] c.op = "getStorageEstimate" -> EstimateCode(env, f, flt)
    [] c.op = "exists" -> ExistsCode(env, f, c.path, flt)

\* a completed call: what was asked, the page it ran against, the status and
\* error of the operation record its failing or last submission ended with
\* ("none": it ended with no record), how the promise settled, and the
\* statements of the code strings submitted
Completed(c, status, error, out, subs) ==
  [op |-> c.op, path |-> c.path, arg |-> c.arg, env |-> CurrentEnv, link |-> fcLink, before |-> fs,
   status |-> status, error |-> error, out |-> out, subs |-> subs]

\* variant of SingleSubs with a second submission
SingleSubsTwice(op) == <<op, op>>
\* api.ts:599 and the like: the one evalInPage call of an operation
SingleSubs(op) == <<op>>

\* an operation that submits one code string
Single(c) ==
  /\ fcPc = "ready"
  /\ Len(fcCalls) < MaxCalls
  /\ LET tr == Transport(fcLink)
         page == PageCode(c, CurrentEnv, fs, FaultOf(pgFault))
         ran == tr.ran /\ page.status # "none"
     IN  /\ fs' = IF ran THEN page.fs ELSE fs
         /\ fcCalls' = Append(fcCalls,
              Completed(c, IF ran /\ tr.err = "none" THEN page.status ELSE "none",
                        IF ran /\ tr.err = "none" THEN page.error ELSE Undef,
                        FacadeSettle(c.op, EvalOutcome(tr, page)), SingleSubs(c.op)))
  /\ UNCHANGED <<pgSecure, pgStorage, pgHasMove, pgFault, fcLink, fcPc, fcCur, stageVars, notFacadeVars>>

FcList == \E d \in {Root, "a"} : Single(Call("list", d, NoArg))
FcRead == \E p \in Paths : Single(Call("read", p, NoArg))
FcReadWithMeta ==
  \E p \in Paths, force \in BOOLEAN :
    /\ force => ExtOf(p) # ".txt"
    /\ Single(Call("readWithMeta", p, [NoArg EXCEPT !.flag = force]))
FcWriteText ==
  \E p \in Paths, t \in FcTexts :
    /\ ExtOf(p) = ".txt" \/ t = Hello
    /\ Single(Call("write", p, [NoArg EXCEPT !.text = t]))
FcRename ==
  \E p \in Paths, n \in {"a", "b.txt", "img.png"} :
    /\ Movable(CurrentEnv, fs, p, Join(Parent(p), n))
    /\ Single(Call("rename", p, [NoArg EXCEPT !.to = n]))
FcMove ==
  \E p \in Paths, q \in Paths :
    /\ Movable(CurrentEnv, fs, p, q)
    /\ Single(Call("move", p, [NoArg EXCEPT !.to = q]))
FcCreate ==
  \E p \in Paths, k \in {"file", "directory"} :
    Single(Call("create", p, [NoArg EXCEPT !.kind = k]))
FcDelete == \E p \in Paths : Single(Call("delete", p, NoArg))
FcDownload == \E p \in Paths : Single(Call("download", p, NoArg))
FcGetStorageEstimate == Single(Call("getStorageEstimate", Root, NoArg))
FcExists == \E p \in Paths \cup {Root} : Single(Call("exists", p, NoArg))

\* api.ts:745-756  write(path, content, true) starts: the payload goes to
\* stageBinaryData, under a key of its own
FcWriteBinary ==
  /\ fcPc = "ready"
  /\ Len(fcCalls) < MaxCalls
  /\ \E p \in {"img.png", "a/b.txt"}, b \in FcPayloads :
       /\ p = "img.png" \/ b = B64(0, PngMagic)
       /\ fcCur' = Call("write", p, [NoArg EXCEPT !.b64 = b, !.flag = TRUE])
       /\ stLen' = B64Len(b)
  /\ fcPc' = "staging"
  /\ stPc' = "start"
  /\ totalChunks' = 0
  /\ staged' = 0
  /\ stIdx' = 0
  /\ sessionStorage' = [i \in ChunkIdx |-> AbsentEntry]
  /\ stErr' = "none"
  /\ stOut' = Pending
  /\ stRemovals' = <<>>
  /\ wrOut' = Pending
  /\ wrFail' = "none"
  /\ submitted' = <<>>
  /\ UNCHANGED <<pgSecure, pgStorage, pgHasMove, pgFault, fcLink, fs, fcCalls, notFacadeVars>>

\* the error a submission of the staging phase ends with in this page
\* ("none": it resolves): sessionStorage is full when the last chunk is
\* stored, or the submission or its poll fails
StagingError(isLast) ==
  IF ~Transport(fcLink).ran \/ Transport(fcLink).err # "none" THEN Transport(fcLink).err
  ELSE IF pgFault = "setItem" /\ isLast THEN "QuotaExceededError"
  ELSE "none"

\* api.ts:541-549  one chunk is staged, in this page
FcStageChunk ==
  /\ fcPc = "staging"
  /\ StageChunk
  /\ staged' = staged <=> StagingError(stIdx + 1 = totalChunks) # "none"
  /\ staged' = staged => stErr' = StagingError(stIdx + 1 = totalChunks)
  /\ sessionStorage'[stIdx].present <=> Transport(fcLink).ran /\ stErr' # "QuotaExceededError"

\* api.ts:553-558  one chunk is removed again, in this page
FcCleanupChunk ==
  /\ fcPc = "staging"
  /\ CleanupChunk
  /\ stRemovals'[Len(stRemovals')].ran <=> Transport(fcLink).ran

Stmts(codes) == [k \in 1..Len(codes) |-> codes[k].stmt]

\* api.ts:756  stageBinaryData rejected and write rethrows
FcWriteBinaryRejected ==
  /\ fcPc = "staging"
  /\ stPc = "rejected"
  /\ fcPc' = "ready"
  /\ fcCur' = NoCall
  /\ fcCalls' = Append(fcCalls,
       Completed(fcCur, IF stErr = "QuotaExceededError" THEN "error" ELSE "none",
                 IF stErr = "QuotaExceededError" THEN stErr ELSE Undef,
                 FacadeSettle("write", Rejected(stOut.value)), Stmts(submitted)))
  /\ UNCHANGED <<pgSecure, pgStorage, pgHasMove, pgFault, fcLink, fs, stageVars, notFacadeVars>>

\* api.ts:758-791  the write code is dispatched, runs against the file
\* system, and the promise of write settles
FcWriteBinaryExec ==
  /\ fcPc = "staging"
  /\ WriteCode
  /\ LET flt == FaultOf(pgFault)
     IN
       LET page == WriteBinaryCode(CurrentEnv, fs, fcCur.path, fcCur.arg.b64,
                                   sessionStorage, stOut.chunks, flt)
           ran == wrFail' # "not run"
       IN  /\ ran <=> Transport(fcLink).ran
           /\ ran => wrFail' = WriteBinaryFailure(CurrentEnv, fs, fcCur.path, fcCur.arg.b64,
                                                  sessionStorage, stOut.chunks, flt)
           /\ fs' = IF ran THEN page.fs ELSE fs
           /\ fcCalls' = Append(fcCalls,
                Completed(fcCur, IF ran THEN page.status ELSE "none",
                          IF ran THEN page.error ELSE Undef,
                          FacadeSettle("write",
                            EvalOutcome([ran |-> ran, err |-> IF ran THEN "none" ELSE "Eval failed"], page)),
                          Stmts(submitted')))
  /\ fcPc' = "ready"
  /\ fcCur' = NoCall
  /\ UNCHANGED <<pgSecure, pgStorage, pgHasMove, pgFault, fcLink, notFacadeVars>>

SmallPng == RunsOf(<<137, 80, 78, 71>>)

\* the file systems a behaviour starts from
InitFs ==
  LET empty == [p \in Paths |-> AbsentNode]
  IN  { empty,
        [empty EXCEPT !["a"] = DirNode],
        [empty EXCEPT !["a"] = DirNode, !["a/b.txt"] = FileNode(RunsOf(<<120>>)),
                      !["img.png"] = FileNode(SmallPng)],
        [empty EXCEPT !["a"] = FileNode(<<Run(120, 9), Run(233, 1)>>),
                      !["b.txt"] = FileNode(<<Run(120, OneMB + 1)>>),
                      !["img.png"] = FileNode(<<Run(0, ImageMax + 1)>>)],
        [empty EXCEPT !["a"] = DirNode, !["a/b.txt"] = FileNode(<<Run(120, TextMax)>>),
                      !["b.txt"] = FileNode(<<Run(120, TextMax + 1)>>),
                      !["img.png"] = FileNode(<<Run(0, ImageMax)>>)] }

\* the pages a behaviour runs against: isSecureContext, navigator.storage,
\* handle.move, the failing storage call, and how submissions go
PageEnvs ==
  { <<TRUE, "full", TRUE, "none", "ok">>, <<TRUE, "full", FALSE, "none", "ok">>,
    <<FALSE, "full", TRUE, "none", "ok">>, <<TRUE, "noOpfs", TRUE, "none", "ok">>,
    <<TRUE, "none", TRUE, "none", "ok">>, <<TRUE, "full", TRUE, "storage", "ok">>,
    <<TRUE, "full", TRUE, "createWritable", "ok">>, <<TRUE, "full", TRUE, "none", "poll">>,
    <<TRUE, "full", TRUE, "none", "submit">>, <<TRUE, "full", TRUE, "setItem", "ok">> }

InitFacade ==
  /\ DispInit /\ isSafari = FALSE
  /\ EvalIdle /\ EscIdle /\ StageIdle /\ ClassIdle /\ AppIdle
  /\ \E e \in PageEnvs :
       /\ pgSecure = e[1] /\ pgStorage = e[2] /\ pgHasMove = e[3]
       /\ pgFault = e[4] /\ fcLink = e[5]
  /\ fs \in InitFs
  /\ fcPc = "ready"
  /\ fcCur = NoCall
  /\ fcCalls = <<>>

NextFacade ==
  \/ FcList \/ FcRead \/ FcReadWithMeta \/ FcWriteText \/ FcRename \/ FcMove
  \/ FcCreate \/ FcDelete \/ FcDownload \/ FcGetStorageEstimate \/ FcExists
  \/ FcWriteBinary \/ StageCall \/ FcStageChunk \/ FcCleanupChunk
  \/ FcWriteBinaryExec \/ FcWriteBinaryRejected

SpecFacade == InitFacade /\ [][NextFacade]_vars


(***************************************************************************)
(* Properties of the facade.                                               *)
(***************************************************************************)
Calls == 1..Len(fcCalls)
IsBinaryWrite(c) == c.op = "write" /\ c.arg.flag
IsTextWrite(c) == c.op = "write" /\ ~c.arg.flag

\* the page is a secure context with the storage API, its storage calls
\* work, and submissions and polls go through
Healthy(c) ==
  c.env.secure /\ c.env.storage = "full" /\ c.env.fault = "none" /\ c.link = "ok"

\* the file system after call k
After(k) == IF k = Len(fcCalls) /\ fcPc = "ready" THEN fs
            ELSE IF k < Len(fcCalls) THEN fcCalls[k + 1].before ELSE fs

\* C22 as stated: a successful binary write whose payload splits into N
\* chunks submits N+1 staging code strings and then exactly one write code
\* string; every other call submits exactly one code string.
C22_StagingOfNPlusOne ==
  \A k \in Calls :
    LET c == fcCalls[k]
        n == CeilMinOne(B64Len(c.arg.b64))
    IN  IF IsBinaryWrite(c)
        THEN c.out.kind = "resolved" =>
               c.subs = Fill("setItem", n + 1) \o <<"write">>
        ELSE Len(c.subs) = 1

\* C22: a successful binary write whose payload splits into N chunks submits
\* N staging code strings, one setItem per chunk, and then exactly one write
\* code string; every other call, a non-binary write included, submits
\* exactly one code string.
C22_StagingThenOneWrite ==
  \A k \in Calls :
    LET c == fcCalls[k]
        n == CeilMinOne(B64Len(c.arg.b64))
    IN  IF IsBinaryWrite(c)
        THEN c.out.kind = "resolved" =>
               c.subs = Fill("setItem", n) \o <<"write">>
        ELSE Len(c.subs) = 1

\* a binary write of a payload of two chunks has resolved
C22_Witness ==
  \E k \in Calls :
    /\ IsBinaryWrite(fcCalls[k])
    /\ B64Len(fcCalls[k].arg.b64) > CHUNK
    /\ fcCalls[k].out.kind = "resolved"
    /\ fcCalls[k].subs = <<"setItem", "setItem", "write">>

\* C23: whenever a submission of a call ended with the terminal status
\* error, the call's promise is rejected, with the record's error field as
\* the message, or 'Unknown error' when that field is empty.
C23_RejectsOnErrorStatus ==
  \A k \in Calls :
    LET c == fcCalls[k]
    IN  c.status = "error" =>
          c.out = FcRejected(IF c.error = Undef \/ c.error = "" THEN "Unknown error" ELSE c.error)

\* a read whose record carried an empty error field, then a binary write
\* whose write code ended with such a record after its chunk was staged
C23_Witness ==
  /\ Len(fcCalls) = 2
  /\ fcCalls[1].op = "read" /\ fcCalls[1].status = "error" /\ fcCalls[1].error = ""
  /\ fcCalls[1].out = FcRejected("Unknown error")
  /\ IsBinaryWrite(fcCalls[2]) /\ fcCalls[2].status = "error"
  /\ fcCalls[2].subs = <<"setItem", "write">>
  /\ fcCalls[2].out = FcRejected("Unknown error")

\* the three failures of C24, for the call c: no secure context, no storage
\* API for what the operation uses, the addressed path not resolvable
LacksStorageApi(c) ==
  IF c.op = "getStorageEstimate" THEN c.env.storage = "none" ELSE c.env.storage # "full"
MustExist == {"read", "readWithMeta", "rename", "move", "delete", "download", "exists"}
Unresolvable(c) ==
  /\ c.op # "getStorageEstimate"
  /\ c.path # Root
  /\ \/ c.op = "list" /\ c.before[c.path].kind # "directory"
     \/ c.op # "list" /\ ~DirOk(c.before, Parent(c.path))
     \/ c.op \in MustExist /\ c.before[c.path].kind = "absent"
     \/ c.op = "move" /\ ~DirOk(c.before, Parent(c.arg.to))
FailureCase(c) == ~c.env.secure \/ LacksStorageApi(c) \/ Unresolvable(c)

\* C24 as stated: for every operation, in each of the three failure cases
\* the promise rejects with a message.
C24_EveryOperationRejects ==
  \A k \in Calls :
    LET c == fcCalls[k]
    IN  FailureCase(c) => c.out.kind = "rejected" /\ c.out.message \notin {"", Undef}

\* C24: for every operation but exists, in each of the three failure cases
\* the promise rejects with a message; exists resolves with false instead.
C24_AllButExistsReject ==
  \A k \in Calls :
    LET c == fcCalls[k]
    IN  FailureCase(c) =>
          IF c.op = "exists"
          THEN c.link = "ok" => c.out = FcResolved(VBool(FALSE))
          ELSE c.out.kind = "rejected" /\ c.out.message \notin {"", Undef}

\* a list of a missing directory rejected, then exists resolved with false
\* for a path below it
C24_Witness ==
  /\ Len(fcCalls) = 2
  /\ fcCalls[1].op = "list" /\ fcCalls[1].path = "a" /\ Healthy(fcCalls[1])
  /\ fcCalls[1].out = FcRejected("NotFoundError")
  /\ fcCalls[2].op = "exists" /\ fcCalls[2].path = "a/b.txt"
  /\ fcCalls[2].out = FcResolved(VBool(FALSE))

\* call k is the non-binary write of text t to path p and call k+1 the read
\* of p, in a healthy page
WriteThenRead(k, p) ==
  /\ k + 1 \in Calls
  /\ IsTextWrite(fcCalls[k]) /\ fcCalls[k].path = p
  /\ fcCalls[k + 1].op = "read" /\ fcCalls[k + 1].path = p
  /\ Healthy(fcCalls[k])

\* C25 as stated: from any storage state, also one without directory 'a',
\* write("a/b.txt", "hello", false) followed by read("a/b.txt") returns "hello".
C25_FromAnyStorageState ==
  \A k \in Calls :
    (WriteThenRead(k, "a/b.txt") /\ fcCalls[k].arg.text = Hello) =>
      fcCalls[k + 1].out = FcResolved(VString(Hello))

\* C25: from any storage state in which 'a' is a directory and 'a/b.txt' is
\* not one, write("a/b.txt", "hello", false) resolves and the read("a/b.txt")
\* that follows returns "hello"; without directory 'a' the write rejects and
\* creates nothing.
C25_InExistingDirectory ==
  \A k \in Calls :
    (WriteThenRead(k, "a/b.txt") /\ fcCalls[k].arg.text = Hello) =>
      LET before == fcCalls[k].before
      IN  /\ (before["a"].kind = "directory" /\ before["a/b.txt"].kind # "directory") =>
               /\ fcCalls[k].out = FcResolved(VVoid)
               /\ fcCalls[k + 1].out = FcResolved(VString(Hello))
          /\ before["a"].kind = "absent" =>
               /\ fcCalls[k].out = FcRejected("NotFoundError")
               /\ After(k) = before

\* 'a' was an empty directory, the write created the file, the read returned it
C25_Witness ==
  /\ WriteThenRead(1, "a/b.txt")
  /\ fcCalls[1].arg.text = Hello
  /\ fcCalls[1].before["a"].kind = "directory"
  /\ fcCalls[1].before["a/b.txt"].kind = "absent"
  /\ fcCalls[2].out = FcResolved(VString(Hello))

\* C26: for every text c of at most 1 MB, a non-binary write of c to a file
\* with a text extension in an existing directory, once resolved, followed
\* by the read of that file returns c unchanged.
C26_TextRoundTrip ==
  \A k \in Calls : \A p \in Paths :
    ( /\ WriteThenRead(k, p)
      /\ ExtOf(p) = ".txt"
      /\ DirOk(fcCalls[k].before, Parent(p))
      /\ fcCalls[k].out.kind = "resolved"
      /\ SizeOf(BytesOfText(fcCalls[k].arg.text)) <= OneMB ) =>
      fcCalls[k + 1].out = FcResolved(VString(fcCalls[k].arg.text))

\* C27: after write("img.png", b, true) has resolved, b the base64 of a
\* small PNG, ceil(len(b)/65536) chunks were staged, the file holds the bytes
\* decoded from b, and the readWithMeta("img.png") that follows returns
\* detectedType 'image', isBase64 true and the data URL of those bytes.
C27_PngWriteThenReadWithMeta ==
  \A k \in Calls :
    LET c == fcCalls[k]
        b == c.arg.b64
        bytes == AtobB64(b).bytes
    IN  ( /\ IsBinaryWrite(c) /\ c.path = "img.png"
          /\ c.out.kind = "resolved"
          /\ TakeBytes(bytes, 4) = SmallPng ) =>
          /\ SelectSeq(c.subs, LAMBDA x : x = "setItem") = Fill("setItem", Ceil(B64Len(b), CHUNK))
          /\ After(k)["img.png"] = FileNode(bytes)
          /\ ( /\ k + 1 \in Calls
               /\ fcCalls[k + 1].op = "readWithMeta" /\ fcCalls[k + 1].path = "img.png"
               /\ ~fcCalls[k + 1].arg.flag ) =>
               /\ fcCalls[k + 1].out.kind = "resolved"
               /\ fcCalls[k + 1].out.val.detectedType = "image"
               /\ fcCalls[k + 1].out.val.isBase64
               /\ fcCalls[k + 1].out.val.content = VDataUrl(Mime("image", "png"), BtoaRuns(bytes))

\* the payload iVBORx, whose spare bits are not zero, was written and read
\* back as the data URL of the bytes 89 50 4E 47
C27_Witness ==
  /\ Len(fcCalls) = 2
  /\ IsBinaryWrite(fcCalls[1]) /\ fcCalls[1].path = "img.png"
  /\ fcCalls[1].arg.b64 = B64(0, <<"i", "V", "B", "O", "R", "x">>)
  /\ fcCalls[1].out.kind = "resolved"
  /\ fcCalls[1].subs = <<"setItem", "write">>
  /\ fcCalls[2].op = "readWithMeta" /\ fcCalls[2].path = "img.png"
  /\ fcCalls[2].out.kind = "resolved"
  /\ fcCalls[2].out.val.isBase64
  /\ fcCalls[2].out.val.content = VDataUrl(Mime("image", "png"), B64(0, PngMagic))

(***************************************************************************)
(* Part VII: termination, slot lifetime and poll scheduling of the         *)
(* dispatcher.                                                             *)
(***************************************************************************)

\* a record some other script of the page left in the slot: truthy, with a
\* status the poll handler has no branch for
ForeignRec == [status |-> "other", result |-> Undef, error |-> Undef, by |-> 0]

\* api.ts:177-179  the slot is a property of the page's global object, which
\* every script of the page can assign
PageScriptWrites(o) ==
  /\ UNCHANGED otherVars
  /\ pc[o] \in {"submit", "timer", "poll"}
  /\ work[o] # "none"
  /\ window[WrapperKey(opId[o])] # ForeignRec
  /\ window' = [window EXCEPT ![WrapperKey(opId[o])] = ForeignRec]
  /\ UNCHANGED <<isSafari, now, pc, opId, attempts, work, outcome, del, delay,
                 timers, inflight, cause, settles, polls, dels, last, observed,
                 wrote, touched>>

NextLive == Step(1) \/ PageScriptWrites(1)

\* every evaluation handed to the host completes and every timer fires; the
\* wrapped async function need not finish
Fairness ==
  /\ WF_vars(TargetExec(1))
  /\ WF_vars(SubmitCompleteWith(1, ExcInfos))
  /\ WF_vars(pollForResult(1))
  /\ WF_vars(PollCompleteWith(1, ExcInfos))
  /\ WF_vars(DeleteExec(1) \/ DeleteFail(1))

SpecLive == Init /\ [][NextLive]_vars /\ Fairness

\* the same without a foreign writer of the slot
SpecLiveOwn == Init /\ [][Next]_vars /\ Fairness

\* C33: every dispatched operation eventually settles, whatever value its
\* polls return, a truthy value whose status is none of pending, done, error
\* included.
C33_EventuallySettles ==
  \A o \in Ops : (pc[o] # "idle") ~> (outcome[o].kind # "none")

\* C34: once an operation has settled and its slot deletion has been
\* evaluated, its slot is absent from the page, and it stays absent, also
\* when the operation timed out and its wrapped code finishes afterwards.
C34_SlotStaysAbsent ==
  \A o \in Ops :
    (outcome[o].kind # "none" /\ del[o] = "done")
      => window[WrapperKey(opId[o])] = NullRec

\* C35: for each operation at most one poll evaluation is in flight and at
\* most one poll timer is pending, never both: a timer is set only by the
\* handler that received the previous poll's result (or the submission's),
\* across transient retries as well.
C35_PollsSequential ==
  \A o \in Ops :
    /\ timers[o] + inflight[o] <= 1
    /\ timers[o] = 1 <=> pc[o] = "timer"
    /\ inflight[o] = 1 <=> pc[o] = "poll"
    /\ polls[o] = attempts[o] - (IF cause[o] = "timeout" THEN 1 ELSE 0)

\* flagged unstable: the second poll reported an exception too, and its retry
\* timer is the only thing pending
C35_Witness ==
  /\ isSafari
  /\ attempts[1] = 2
  /\ polls[1] = 2
  /\ last[1] = "exception"
  /\ timers[1] = 1
  /\ inflight[1] = 0
  /\ delay[1] = 200

(***************************************************************************)
(* Part VIII: further properties of the facade.                            *)
(***************************************************************************)

SetItems(codes) == SelectSeq(codes, LAMBDA x : x.stmt = "setItem")

\* C36: in a binary write the chunks are submitted one at a time in index
\* order, chunk i+1 only after the operation of chunk i resolved; the write
\* code is submitted last and only after every chunk was staged; and when
\* staging fails no write code is submitted and the file system is what it
\* was before the call.
C36_StagedInOrderThenWrite ==
  /\ \A k \in 1..Len(SetItems(submitted)) :
       /\ SetItems(submitted)[k].lo = Min((k - 1) * CHUNK, stLen)
       /\ SetItems(submitted)[k].hi = Min(k * CHUNK, stLen)
  /\ Len(SetItems(submitted)) = staged + (IF stErr = "none" THEN 0 ELSE 1)
  /\ \A k \in 1..Len(submitted) :
       /\ submitted[k].stmt = "setItem" => \A j \in 1..k : submitted[j].stmt = "setItem"
       /\ submitted[k].stmt = "write" =>
            /\ k = Len(submitted)
            /\ stErr = "none"
            /\ staged = totalChunks
            /\ Stmts(submitted) = Fill("setItem", CeilMinOne(stLen)) \o <<"write">>
  /\ \A k \in Calls :
       LET c == fcCalls[k]
       IN  IsBinaryWrite(c) =>
             IF \E j \in 1..Len(c.subs) : c.subs[j] = "write"
             THEN c.subs = Fill("setItem", CeilMinOne(B64Len(c.arg.b64))) \o <<"write">>
             ELSE /\ c.out.kind = "rejected"
                  /\ After(k) = c.before

\* the second chunk of a binary write over an existing file could not be
\* stored: the first was removed again, no write code was submitted, and the
\* file is what it was
C36_Witness ==
  /\ Len(fcCalls) = 1
  /\ fcPc = "ready"
  /\ IsBinaryWrite(fcCalls[1]) /\ fcCalls[1].path = "img.png"
  /\ B64Len(fcCalls[1].arg.b64) > CHUNK
  /\ fcCalls[1].subs = <<"setItem", "setItem", "removeItem">>
  /\ fcCalls[1].out = FcRejected("QuotaExceededError")
  /\ fcCalls[1].before["img.png"] = FileNode(SmallPng)
  /\ fs = fcCalls[1].before

IsRelocation(c) == c.op \in {"rename", "move"}

\* the destination path of a rename or move
Destination(c) == IF c.op = "rename" THEN Join(Parent(c.path), c.arg.to) ELSE c.arg.to

\* C37: after rename(path, newName) or move(oldPath, newPath) has resolved,
\* the entry is at the destination with the content it had, with
\* handle.move and with the copy-then-remove fallback alike, also when the
\* destination is the source's own name or path.
C37_EntryAtDestination ==
  \A k \in Calls :
    LET c == fcCalls[k]
    IN  (IsRelocation(c) /\ c.out.kind = "resolved") =>
          After(k)[Destination(c)] = c.before[c.path]

\* C39: every result of readWithMeta carries the file's size, and isBase64
\* is true exactly when detectedType is 'image' and the size is at most 5 MB;
\* isLargeText is true exactly when detectedType is 'text' and the size is
\* above 1 MB and at most 10 MB; the content is the file's text only when
\* detectedType is 'text' and the size is at most 10 MB; and with forceText
\* detectedType is 'text'.
C39_ResultFlagsConsistent ==
  \A k \in Calls :
    LET c == fcCalls[k]
        r == c.out.val
    IN  (c.op = "readWithMeta" /\ c.out.kind = "resolved") =>
          /\ r.size = SizeOf(c.before[c.path].content)
          /\ r.isBase64 <=> (r.detectedType = "image" /\ r.size <= 5 * 1024 * 1024)
          /\ r.isBase64 <=> r.content.tag = "dataUrl"
          /\ r.isLargeText <=>
               (r.detectedType = "text" /\ r.size > 1024 * 1024 /\ r.size <= 10 * 1024 * 1024)
          /\ r.content.tag = "string" <=>
               (r.detectedType = "text" /\ r.size <= 10 * 1024 * 1024)
          /\ r.content.tag = "string" => r.content.text = FileText(c.before[c.path].content)
          /\ c.arg.flag => r.detectedType = "text"

\* a text file of exactly 10 MB was read: its text is returned, flagged
\* large; then an image of exactly 5 MB was read as text
C39_Witness ==
  /\ Len(fcCalls) = 2
  /\ fcCalls[1].op = "readWithMeta" /\ fcCalls[1].path = "a/b.txt"
  /\ fcCalls[1].out.kind = "resolved"
  /\ fcCalls[1].out.val.size = TextMax
  /\ fcCalls[1].out.val.isLargeText
  /\ fcCalls[1].out.val.content = VString(Text(<<>>, TextMax))
  /\ fcCalls[2].op = "readWithMeta" /\ fcCalls[2].path = "img.png"
  /\ fcCalls[2].arg.flag
  /\ fcCalls[2].out.kind = "resolved"
  /\ fcCalls[2].out.val.size = ImageMax
  /\ fcCalls[2].out.val.detectedType = "text"
  /\ fcCalls[2].out.val.isLargeText
  /\ ~fcCalls[2].out.val.isBase64

(***************************************************************************)
(* Part IX: the editor pane of the panel (src/src/panel/App.tsx): a file   *)
(* is selected, its content is loaded with readWithMeta and displayed, it  *)
(* may be edited, and saveFile writes the displayed content back.          *)
(***************************************************************************)

\* the entries of the tree: a text file, an image, an image above 5 MB, a
\* binary file, a file whose type the sniffing leaves open, a file deleted
\* in the page since the tree was listed, and a directory
EdFiles == {"notes.txt", "photo.png", "huge.png", "data.bin", "blob", "gone.txt"}
EdDirs == {"docs"}
Entry(path) == [path |-> path, kind |-> IF path \in EdDirs THEN "directory" ELSE "file"]

\* no write of the panel has replaced the file's content
Original == [tag |-> "original", text |-> ""]

\* most loads in flight, and most saves followed
MaxLoads == 2
MaxSaves == 1

\* App.tsx:1127-1130  isImageFile(fileName)
isImageFile(path) == path \in {"photo.png", "huge.png"}

\* App.tsx:2015  fileContent.startsWith('[TOO_LARGE]') || fileContent.startsWith('[BINARY]')
isTooLarge(content) ==
  content.tag = "sentinel" /\ content.text \in {"[TOO_LARGE]", "[BINARY]"}

\* opfsApi.readWithMeta(path) (api.ts:638-740) on the files of the tree, st
\* being what the panel stored in the file since: the classification goes by
\* the extension where there is one, and text is returned as it is stored
LoadResult(path, st) ==
  CASE path = "gone.txt" /\ st = Original ->
         [ok |-> FALSE, content |-> EdString("Error reading file: NotFoundError"),
          isBase64 |-> FALSE]
    [] path = "photo.png" -> [ok |-> TRUE, content |-> EdDataUrl, isBase64 |-> TRUE]
    [] path = "huge.png" ->
         [ok |-> TRUE, content |-> EdSentinel("[TOO_LARGE]"), isBase64 |-> FALSE]
    [] path = "data.bin" ->
         [ok |-> TRUE, content |-> EdSentinel("[BINARY]"), isBase64 |-> FALSE]
    [] path = "blob" /\ st = Original ->
         [ok |-> TRUE, content |-> EdSentinel("[UNKNOWN_TYPE]"), isBase64 |-> FALSE]
    [] path = "notes.txt" /\ st = Original ->
         [ok |-> TRUE, content |-> EdString("hello"), isBase64 |-> FALSE]
    [] OTHER -> [ok |-> TRUE, content |-> st, isBase64 |-> FALSE]

\* App.tsx:1372-1426, 1349-1356  handleSelect, a plain click on an entry, up
\* to the await of loadFileContent
Select(path) ==
  /\ primaryFile.path # path
  /\ Cardinality(loads) < MaxLoads
  /\ path \notin loads
  /\ primaryFile' = Entry(path)
  /\ IF path \in EdDirs
     THEN /\ fileContent' = EdString("")
          /\ fileMeta' = NoMeta
          /\ UNCHANGED <<contentLoading, loads>>
     ELSE /\ contentLoading' = TRUE
          /\ loads' = loads \cup {path}
          /\ UNCHANGED <<fileContent, fileMeta>>
  /\ UNCHANGED <<initialContent, stored, saves, upVars, notAppVars>>

\* App.tsx:1359-1370  loadFileContent once readWithMeta has settled
LoadDone(path) ==
  /\ path \in loads
  /\ loads' = loads \ {path}
  /\ contentLoading' = FALSE
  /\ LET r == LoadResult(path, stored[path])
     IN  /\ fileContent' = r.content
         /\ fileMeta' = IF r.ok THEN [present |-> TRUE, isBase64 |-> r.isBase64] ELSE NoMeta
         /\ initialContent' = IF r.ok THEN r.content ELSE initialContent
  /\ UNCHANGED <<primaryFile, stored, saves, upVars, notAppVars>>

\* App.tsx:2483-2514  what the pane renders: the FileEditor, whose onChange
\* is setFileContent, is there for a file that is not loading, is not shown as
\* an image and is not taken for too large
EditorShown ==
  /\ primaryFile.kind = "file"
  /\ ~contentLoading
  /\ ~(isImageFile(primaryFile.path) /\ fileMeta.present /\ fileMeta.isBase64)
  /\ ~isTooLarge(fileContent)

\* App.tsx:2510-2514  the user types in the FileEditor
Edit ==
  /\ EditorShown
  /\ fileContent # EdString("edited")
  /\ fileContent' = EdString("edited")
  /\ UNCHANGED <<primaryFile, initialContent, fileMeta, contentLoading, loads,
                 stored, saves, upVars, notAppVars>>

\* App.tsx:1456-1466  saveFile
saveFile(via) ==
  /\ Len(saves) < MaxSaves
  /\ primaryFile.kind = "file"
  /\ saves' = Append(saves, [path |-> primaryFile.path, content |-> fileContent,
                             via |-> via])
  /\ \E ok \in BOOLEAN :
       IF ok
       THEN /\ stored' = [stored EXCEPT ![primaryFile.path] = fileContent]
            /\ initialContent' = fileContent
       ELSE UNCHANGED <<stored, initialContent>>
  /\ UNCHANGED <<primaryFile, fileContent, fileMeta, contentLoading, loads, upVars,
                 notAppVars>>

\* App.tsx:2456-2468  the Save button is rendered and clicked
SaveButton ==
  /\ primaryFile.kind = "file"
  /\ ~isImageFile(primaryFile.path)
  /\ ~isTooLarge(fileContent)
  /\ saveFile("button")

\* App.tsx:1591-1595  Ctrl/Cmd+S
SaveShortcut ==
  /\ primaryFile.kind = "file"
  /\ saveFile("shortcut")

InitEditor ==
  /\ DispInit /\ isSafari = FALSE
  /\ EvalIdle /\ EscIdle /\ StageIdle /\ ClassIdle /\ FacadeIdle /\ UpIdle
  /\ primaryFile = NoEntry
  /\ fileContent = EdString("")
  /\ initialContent = EdString("")
  /\ fileMeta = NoMeta
  /\ contentLoading = FALSE
  /\ loads = {}
  /\ stored = [f \in EdFiles |-> Original]
  /\ saves = <<>>

NextEditor ==
  \/ \E path \in EdFiles \cup EdDirs : Select(path)
  \/ \E path \in EdFiles : LoadDone(path)
  \/ Edit
  \/ SaveButton
  \/ SaveShortcut

SpecEditor == InitEditor /\ [][NextEditor]_vars

\* the content is one of the read-only sentinels, or the data URL of an image
IsReadOnlySentinel(content) == content.tag \in {"sentinel", "dataUrl"}

\* C31: no save writes a read-only sentinel back: whenever the displayed
\* content is a sentinel ('[BINARY]', '[TOO_LARGE]', '[BINARY_OR_LARGE]',
\* '[UNKNOWN_TYPE]') or the data URL of an image, the Save button and
\* Ctrl/Cmd+S issue no opfsApi.write.
C31_NoSentinelSaved ==
  \A i \in 1..Len(saves) : ~IsReadOnlySentinel(saves[i].content)

(***************************************************************************)
(* Part X: uploads of the panel (src/src/panel/App.tsx): files dropped on  *)
(* the panel are tested for a conflict one by one, written with            *)
(* processUploads, or held back while the conflict dialog is open.         *)
(***************************************************************************)

\* the directories files are dropped onto ('' is the root), the names of
\* the dropped files, and the entries that exist before the first drop
UpDirs == {"", "docs"}
UpNames == {"a.txt", "b.txt", "c.txt"}
UpExisting == {<<"", "b.txt">>, <<"docs", "b.txt">>}

\* most drops followed, and most files of one drop
MaxDrops == 2
MaxBatch == 3

\* the lists of files of one drop: no name twice, as in one directory
Batches ==
  {b \in UNION {[1..n -> UpNames] : n \in 1..MaxBatch} :
     \A i, j \in 1..Len(b) : i # j => b[i] # b[j]}

\* App.tsx:1845  baseName + '_' + Date.now() + ext
Renamed(name) == "renamed " \o name

\* App.tsx:1779, 1813  targetPath ? targetPath + '/' + file.name : file.name
FilePath(targetPath, name) == <<targetPath, name>>

\* an invocation of handleFileUpload(files, targetPath) at its first await
NewRun(files, targetPath) ==
  [files |-> files, target |-> targetPath, idx |-> 1, phase |-> "check"]

\* App.tsx:1723-1741, 1743-1774  handleDrop, handleTreeDrop: files are
\* dropped on a directory and handleFileUpload starts
Drop(targetPath, names) ==
  /\ Len(drops) < MaxDrops
  /\ LET files == [k \in 1..Len(names) |->
                     [id |-> <<Len(drops) + 1, k>>, name |-> names[k]]]
     IN  /\ drops' = Append(drops, [target |-> targetPath, files |-> files])
         /\ upRuns' = upRuns \cup {NewRun(files, targetPath)}
  /\ UNCHANGED <<uploadConflict, pendingUploads, resolving, existing, upLink,
                 written, reported, skipped, redispatched, edVars, notAppVars>>

\* App.tsx:1778-1794  handleFileUpload, one turn of its loop: exists() has
\* settled for files[idx]; on a conflict the handler returns, and the files
\* after files[idx] are in no list
UploadCheck(r) ==
  /\ r \in upRuns
  /\ r.phase = "check"
  /\ LET file == r.files[r.idx]
         filePath == FilePath(r.target, file.name)
         uploadsToProcess == SubSeq(r.files, 1, r.idx - 1)
     IN  IF upLink = "ok" /\ filePath \in existing
         THEN /\ pendingUploads' = pendingUploads \o
                   [k \in 1..Len(uploadsToProcess) |->
                      [file |-> uploadsToProcess[k], targetPath |-> r.target]]
              /\ uploadConflict' = [present |-> TRUE, file |-> file,
                                    targetPath |-> r.target, existingPath |-> filePath]
              /\ upRuns' = upRuns \ {r}
         ELSE /\ upRuns' = (upRuns \ {r}) \cup
                   {IF r.idx < Len(r.files)
                    THEN [r EXCEPT !.idx = @ + 1]
                    ELSE [r EXCEPT !.idx = 1, !.phase = "write"]}
              /\ UNCHANGED <<uploadConflict, pendingUploads>>
  /\ UNCHANGED <<resolving, existing, upLink, drops, written, reported, skipped,
                 redispatched, edVars, notAppVars>>

\* App.tsx:1803-1820  processUploads, one turn of its loop: the file is read
\* and written, or the failure is logged and shown in a toast
UploadWrite(r) ==
  /\ r \in upRuns
  /\ r.phase = "write"
  /\ LET file == r.files[r.idx]
     IN  \E ok \in BOOLEAN :
           /\ upLink = "down" => ~ok
           /\ IF ok
              THEN /\ written' = Append(written, [id |-> file.id, dir |-> r.target,
                                                  name |-> file.name])
                   /\ existing' = existing \cup {FilePath(r.target, file.name)}
                   /\ UNCHANGED reported
              ELSE /\ reported' = reported \cup {file.id}
                   /\ UNCHANGED <<written, existing>>
  /\ upRuns' = (upRuns \ {r}) \cup
       (IF r.idx < Len(r.files) THEN {[r EXCEPT !.idx = @ + 1]} ELSE {})
  /\ UNCHANGED <<uploadConflict, pendingUploads, resolving, upLink, drops, skipped,
                 redispatched, edVars, notAppVars>>

\* App.tsx:1850  the directory the held-back uploads are sent to
DispatchTarget(remaining, k) == remaining[1].targetPath

\* App.tsx:1847-1851  the end of handleConflictResolve, pending being the
\* pendingUploads of the render the handler was created in
Redispatch(pending) ==
  /\ uploadConflict' = NoConflict
  /\ IF Len(pending) > 0
     THEN /\ pendingUploads' = <<>>
          /\ upRuns' = upRuns \cup
               {NewRun([k \in 1..Len(pending) |-> pending[k].file],
                       DispatchTarget(pending, 1))}
          /\ redispatched' = redispatched \o
               [k \in 1..Len(pending) |->
                  [id |-> pending[k].file.id, own |-> pending[k].targetPath,
                   target |-> DispatchTarget(pending, k)]]
     ELSE UNCHANGED <<pendingUploads, upRuns, redispatched>>

\* App.tsx:1830-1852  handleConflictResolve('skip'): nothing is awaited
\* before the held-back uploads are sent
ResolveSkip ==
  /\ uploadConflict.present
  /\ ~resolving.active
  /\ skipped' = skipped \cup {uploadConflict.file.id}
  /\ Redispatch(pendingUploads)
  /\ UNCHANGED <<resolving, existing, upLink, drops, written, reported, edVars,
                 notAppVars>>

\* App.tsx:1830-1846  handleConflictResolve('overwrite' | 'rename') up to
\* the await of processUploads
ResolveStart(action) ==
  /\ uploadConflict.present
  /\ ~resolving.active
  /\ resolving' = [active |-> TRUE, action |-> action, conflict |-> uploadConflict,
                   pending |-> pendingUploads]
  /\ UNCHANGED <<uploadConflict, pendingUploads, upRuns, existing, upLink, drops,
                 written, reported, skipped, redispatched, edVars, notAppVars>>

\* App.tsx:1797-1828, 1847-1851  handleConflictResolve once processUploads
\* has written the file in conflict, or failed to
ResolveFinish ==
  /\ resolving.active
  /\ resolving' = NoResolve
  /\ LET file == resolving.conflict.file
         name == IF resolving.action = "rename" THEN Renamed(file.name) ELSE file.name
         dir == resolving.conflict.targetPath
     IN  \E ok \in BOOLEAN :
           /\ upLink = "down" => ~ok
           /\ IF ok
              THEN /\ written' = Append(written, [id |-> file.id, dir |-> dir,
                                                  name |-> name])
                   /\ existing' = existing \cup {FilePath(dir, name)}
                   /\ UNCHANGED reported
              ELSE /\ reported' = reported \cup {file.id}
                   /\ UNCHANGED <<written, existing>>
  /\ Redispatch(resolving.pending)
  /\ UNCHANGED <<upLink, drops, skipped, edVars, notAppVars>>

InitUpload ==
  /\ DispInit /\ isSafari = FALSE
  /\ EvalIdle /\ EscIdle /\ StageIdle /\ ClassIdle /\ FacadeIdle /\ EdIdle
  /\ uploadConflict = NoConflict
  /\ pendingUploads = <<>>
  /\ upRuns = {}
  /\ resolving = NoResolve
  /\ existing = UpExisting
  /\ upLink \in {"ok", "down"}
  /\ drops = <<>>
  /\ written = <<>>
  /\ reported = {}
  /\ skipped = {}
  /\ redispatched = <<>>

NextUpload ==
  \/ \E targetPath \in UpDirs, names \in Batches : Drop(targetPath, names)
  \/ \E r \in upRuns : UploadCheck(r)
  \/ \E r \in upRuns : UploadWrite(r)
  \/ ResolveSkip
  \/ \E action \in {"overwrite", "rename"} : ResolveStart(action)
  \/ ResolveFinish

SpecUpload == InitUpload /\ [][NextUpload]_vars

\* C32: every upload that was held back and is sent after the conflict is
\* resolved is sent to its own original targetPath, not to the targetPath of
\* the first or of another held-back upload.
C32_OwnTargetPath ==
  \A i \in 1..Len(redispatched) : redispatched[i].target = redispatched[i].own

\* the files dropped so far, and the files that were written
DroppedIds == UNION {{drops[d].files[k].id : k \in 1..Len(drops[d].files)} :
                     d \in 1..Len(drops)}
WrittenIds == {written[i].id : i \in 1..Len(written)}

\* no upload is running, no dialog is open and no resolution is under way
UploadsSettled ==
  upRuns = {} /\ ~uploadConflict.present /\ ~resolving.active

\* C38: an upload of several files drops none of them silently: when the
\* uploads have come to rest, every dropped file was written, or was the file
\* of a conflict that the user skipped, or its failure was reported; this for
\* the files listed before the file in conflict and for those after it.
C38_NoFileDropped ==
  UploadsSettled => DroppedIds \subseteq (WrittenIds \cup skipped \cup reported)

====
